---- MODULE Spec2Model ----
(***************************************************************************)
(* A model of the rust-nes execution core: the CPU bus routing             *)
(* (cpu/cpu.rs), the status register packing, the instruction fetcher and  *)
(* its two opcode tables (cpu/instructions.rs), the PPU register surface   *)
(* and PPU bus (ppu.rs) and the two cartridge mappers (cartridge/nrom.rs,  *)
(* cartridge/mmc1.rs).                                                     *)
(*                                                                         *)
(* Byte arrays are kept sparse: a function from the indices that hold a    *)
(* nonzero byte to that byte; every other index of the array holds 0.      *)
(* A panic of the Rust program (unreachable!, unimplemented!, an index out *)
(* of bounds, a failed assertion) is the value PANIC of an operator and    *)
(* the flag `panicked` of the state; a panicked program takes no step.     *)
(***************************************************************************)
EXTENDS Integers, Sequences, FiniteSets, TLC

-----------------------------------------------------------------------------
(* Machine arithmetic *)

RECURSIVE And(_, _)
\* The `&` of two unsigned integers.
And(a, b) ==
    IF a = 0 \/ b = 0 THEN 0
    ELSE (a % 2) * (b % 2) + 2 * And(a \div 2, b \div 2)

RECURSIVE Or(_, _)
\* The `|` of two unsigned integers.
Or(a, b) ==
    IF a = 0 THEN b
    ELSE IF b = 0 THEN a
    ELSE (IF a % 2 = 1 \/ b % 2 = 1 THEN 1 ELSE 0) + 2 * Or(a \div 2, b \div 2)

\* `value & (1 << n) != 0`
Bit(value, n) == (value \div (2 ^ n)) % 2 = 1

\* `if flag { 1 << n } else { 0 }`
Flag(flag, n) == IF flag THEN 2 ^ n ELSE 0

\* The result of an operation that panicked.
PANIC == -1

Byte == 0 .. 255

\* arr[i] of a sparse byte array of length len; an index out of bounds panics.
ArrGet(arr, len, i) ==
    IF i < 0 \/ i >= len THEN PANIC
    ELSE IF i \in DOMAIN arr THEN arr[i] ELSE 0

\* arr[i] = v on a sparse byte array (the index is in bounds).
ArrPut(arr, i, v) ==
    IF v = 0 THEN [j \in DOMAIN arr \ {i} |-> arr[j]]
    ELSE [j \in DOMAIN arr \cup {i} |-> IF j = i THEN v ELSE arr[j]]

\* The array that holds 0 everywhere: [0; n].
Zeroes == [j \in {} |-> 0]

-----------------------------------------------------------------------------
(* memory_map.rs *)

RAM_SIZE == 2048
PPU_SIZE == 8
APU_IO_SIZE == 32
RAM_START == 0
PPU_START == RAM_START + 4 * RAM_SIZE
APU_IO_START == PPU_START + 1024 * PPU_SIZE
CARTRIDGE_START == APU_IO_START + 1 * APU_IO_SIZE


-----------------------------------------------------------------------------
(* Cartridge contents.  PRG-ROM and CHR-ROM are immutable after load, so   *)
(* they are operators and not state: byte i of the image.  The pattern     *)
(* gives different bytes to neighbouring offsets and to equal offsets of   *)
(* different 4 KiB, 16 KiB and 32 KiB banks.                               *)

\* prg_rom[i] of a PRG-ROM of len bytes.
PrgRom(len, i) ==
    IF i < 0 \/ i >= len THEN PANIC
    ELSE ((i % 251) + 7 * (i \div 16384)) % 256

\* chr_rom[i] of a CHR-ROM of len bytes.
ChrRom(len, i) ==
    IF i < 0 \/ i >= len THEN PANIC
    ELSE ((i % 241) + 5 * (i \div 4096)) % 256

-----------------------------------------------------------------------------
(* cartridge/nrom.rs *)

\* NRom::new, its three assertions included.
NRomNew(prg_len, chr_len, ram_size, mirror_mode) ==
    IF /\ prg_len = 16 * 1024 \/ prg_len = 32 * 1024
       /\ ram_size % 1024 = 0 /\ ram_size <= 8192
       /\ chr_len = 8 * 1024
    THEN [mapper |-> 0, prg_len |-> prg_len, prg_mask |-> prg_len - 1,
          chr_len |-> chr_len, ram |-> Zeroes, ram_len |-> ram_size,
          ram_mask |-> IF ram_size = 0 THEN 0 ELSE ram_size - 1,
          ppu_ram |-> Zeroes, mirror_mode |-> mirror_mode]
    ELSE [mapper |-> PANIC]

\* NRom::read_cpu masking every PRG address to 16 KiB.
NRomReadCpu_Mask16K(c, addr) ==
    IF addr < 24576 THEN 0
    ELSE IF addr < 32768 THEN
        IF c.ram_mask = 0 THEN 0
        ELSE ArrGet(c.ram, c.ram_len, And(addr - 24576, c.ram_mask))
    ELSE PrgRom(c.prg_len, And(addr - 32768, 16383))

NRomReadCpu(c, addr) ==
    IF addr < 24576 THEN 0
    ELSE IF addr < 32768 THEN
        IF c.ram_mask = 0 THEN 0
        ELSE ArrGet(c.ram, c.ram_len, And(addr - 24576, c.ram_mask))
    ELSE PrgRom(c.prg_len, And(addr - 32768, c.prg_mask))

\* NRom::write_cpu storing to the RAM slot whatever the RAM size.
NRomWriteCpu_RamAlways(c, addr, value) ==
    IF addr < 24576 THEN c
    ELSE IF addr < 32768 THEN
        [c EXCEPT !.ram = ArrPut(@, And(addr - 24576, c.ram_mask), value)]
    ELSE c

NRomWriteCpu(c, addr, value) ==
    IF addr < 24576 THEN c
    ELSE IF addr < 32768 THEN
        IF c.ram_mask # 0
        THEN [c EXCEPT !.ram = ArrPut(@, And(addr - 24576, c.ram_mask), value)]
        ELSE c
    ELSE c

\* The ppu_ram index of a cartridge that mirrors horizontally: bit 11 selects
\* the 1 KiB half and bit 10 is ignored.
PpuRamIndex_Horizontal(addr) ==
    1024 * ((addr \div 2048) % 2) + (addr % 1024)

\* The index into the 2 KiB ppu_ram that both mappers compute for a PPU
\* address in $2000-$3EFF.
PpuRamIndex(addr) ==
    IF addr <= 12287 THEN And(addr - 4096, 2047) ELSE And(addr - 8192, 2047)

NRomReadPpu(c, addr) ==
    IF addr <= 8191 THEN ChrRom(c.chr_len, addr)
    ELSE ArrGet(c.ppu_ram, 2048, PpuRamIndex(addr))

NRomWritePpu(c, addr, value) ==
    IF addr <= 8191 THEN c
    ELSE [c EXCEPT !.ppu_ram = ArrPut(@, PpuRamIndex(addr), value)]

-----------------------------------------------------------------------------
(* cartridge/mmc1.rs *)

\* Mmc1::new, its three assertions included.
Mmc1New(prg_len, chr_len, ram_size) ==
    IF prg_len = 16 * 16 * 1024 /\ chr_len = 128 * 1024 /\ ram_size = 8 * 1024
    THEN [mapper |-> 1, prg_len |-> prg_len, chr_len |-> chr_len,
          ram |-> Zeroes, ram_len |-> ram_size,
          control |-> 12, chr_bank0 |-> 0, chr_bank1 |-> 0, prg_bank |-> 0,
          shifter |-> 32, ppu_ram |-> Zeroes]
    ELSE [mapper |-> PANIC]

\* The index into prg_rom that read_cpu computes for addr in $8000-$FFFF.
\* The PRG index with the arms of modes 2 and 3 exchanged.
Mmc1PrgIndex_ModesSwapped(c, addr) ==
    LET mode == And(c.control \div 4, 3) IN
    IF mode = 0 \/ mode = 1 THEN
        32768 * And(c.prg_bank \div 2, 7) + addr - 32768
    ELSE IF mode = 3 THEN
        IF addr < 49152 THEN addr - 32768
        ELSE 16384 * And(c.prg_bank, 15) + addr - 49152
    ELSE
        IF addr < 49152 THEN 16384 * And(c.prg_bank, 15) + addr - 32768
        ELSE 16384 * 15 + addr - 49152

Mmc1PrgIndex(c, addr) ==
    LET mode == And(c.control \div 4, 3) IN
    IF mode = 0 \/ mode = 1 THEN
        32768 * And(c.prg_bank \div 2, 7) + addr - 32768
    ELSE IF mode = 2 THEN
        IF addr < 49152 THEN addr - 32768
        ELSE 16384 * And(c.prg_bank, 15) + addr - 49152
    ELSE
        IF addr < 49152 THEN 16384 * And(c.prg_bank, 15) + addr - 32768
        ELSE 16384 * 15 + addr - 49152

Mmc1ReadCpu(c, addr) ==
    IF addr < 24576 THEN 0
    ELSE IF addr < 32768 THEN
        IF And(c.prg_bank, 16) = 0
        THEN ArrGet(c.ram, c.ram_len, addr - 24576)
        ELSE 0
    ELSE PrgRom(c.prg_len, Mmc1PrgIndex(c, addr))

\* The load-register branch of write_cpu: a write to $8000-$FFFF.
\* The load register choosing CHR bank 0 up to and including $C000.
Mmc1LoadRegister_Boundary(c, addr, value) ==
    IF And(value, 128) # 0 THEN
        [c EXCEPT !.control = Or(@, 12), !.shifter = 32]
    ELSE
        LET shifted == Or(c.shifter \div 2, (And(value, 1) * 128) % 256) IN
        IF And(shifted, 1) = 1 THEN
            LET result == shifted \div 8
                reset == [c EXCEPT !.shifter = 32]
            IN  IF addr < 40960 THEN [reset EXCEPT !.control = result]
                ELSE IF addr <= 49152 THEN [reset EXCEPT !.chr_bank0 = result]
                ELSE IF addr < 57344 THEN [reset EXCEPT !.chr_bank1 = result]
                ELSE [reset EXCEPT !.prg_bank = result]
        ELSE [c EXCEPT !.shifter = shifted]

\* The load register whose reset leaves the control register alone.
Mmc1LoadRegister_ResetKeepsControl(c, addr, value) ==
    IF And(value, 128) # 0 THEN
        [c EXCEPT !.shifter = 32]
    ELSE
        LET shifted == Or(c.shifter \div 2, (And(value, 1) * 128) % 256) IN
        IF And(shifted, 1) = 1 THEN
            LET result == shifted \div 8
                reset == [c EXCEPT !.shifter = 32]
            IN  IF addr < 40960 THEN [reset EXCEPT !.control = result]
                ELSE IF addr < 49152 THEN [reset EXCEPT !.chr_bank0 = result]
                ELSE IF addr < 57344 THEN [reset EXCEPT !.chr_bank1 = result]
                ELSE [reset EXCEPT !.prg_bank = result]
        ELSE [c EXCEPT !.shifter = shifted]

\* The load register committing six bits of the shifter.
Mmc1LoadRegister_SixBits(c, addr, value) ==
    IF And(value, 128) # 0 THEN
        [c EXCEPT !.control = Or(@, 12), !.shifter = 32]
    ELSE
        LET shifted == Or(c.shifter \div 2, (And(value, 1) * 128) % 256) IN
        IF And(shifted, 1) = 1 THEN
            LET result == shifted \div 4
                reset == [c EXCEPT !.shifter = 32]
            IN  IF addr < 40960 THEN [reset EXCEPT !.control = result]
                ELSE IF addr < 49152 THEN [reset EXCEPT !.chr_bank0 = result]
                ELSE IF addr < 57344 THEN [reset EXCEPT !.chr_bank1 = result]
                ELSE [reset EXCEPT !.prg_bank = result]
        ELSE [c EXCEPT !.shifter = shifted]

Mmc1LoadRegister(c, addr, value) ==
    IF And(value, 128) # 0 THEN
        [c EXCEPT !.control = Or(@, 12), !.shifter = 32]
    ELSE
        LET shifted == Or(c.shifter \div 2, (And(value, 1) * 128) % 256) IN
        IF And(shifted, 1) = 1 THEN
            LET result == shifted \div 8
                reset == [c EXCEPT !.shifter = 32]
            IN  IF addr < 40960 THEN [reset EXCEPT !.control = result]
                ELSE IF addr < 49152 THEN [reset EXCEPT !.chr_bank0 = result]
                ELSE IF addr < 57344 THEN [reset EXCEPT !.chr_bank1 = result]
                ELSE [reset EXCEPT !.prg_bank = result]
        ELSE [c EXCEPT !.shifter = shifted]

\* Mmc1::write_cpu storing to PRG-RAM whatever bit 4 of the PRG bank says.
Mmc1WriteCpu_NoGate(c, addr, value) ==
    IF addr < 24576 THEN c
    ELSE IF addr < 32768 THEN [c EXCEPT !.ram = ArrPut(@, addr - 24576, value)]
    ELSE Mmc1LoadRegister(c, addr, value)

Mmc1WriteCpu(c, addr, value) ==
    IF addr < 24576 THEN c
    ELSE IF addr < 32768 THEN
        IF And(c.prg_bank, 16) = 0
        THEN [c EXCEPT !.ram = ArrPut(@, addr - 24576, value)]
        ELSE c
    ELSE Mmc1LoadRegister(c, addr, value)

\* Mmc1::read_ppu selecting the 8 KiB bank by chr_bank0 unshifted.
Mmc1ReadPpu_NoShift(c, addr) ==
    IF addr <= 8191 THEN
        IF And(c.control, 16) = 0 THEN
            ChrRom(c.chr_len, c.chr_bank0 * 8 * 1024 + addr)
        ELSE IF addr <= 4095 THEN
            ChrRom(c.chr_len, c.chr_bank0 * 4 * 1024 + addr)
        ELSE
            ChrRom(c.chr_len, c.chr_bank1 * 4 * 1024 + addr - 4096)
    ELSE ArrGet(c.ppu_ram, 2048, PpuRamIndex(addr))

\* The index into chr_rom that read_ppu computes for addr in $0000-$1FFF.
Mmc1ChrIndex(c, addr) ==
    IF And(c.control, 16) = 0 THEN (c.chr_bank0 \div 2) * 8 * 1024 + addr
    ELSE IF addr <= 4095 THEN c.chr_bank0 * 4 * 1024 + addr
    ELSE c.chr_bank1 * 4 * 1024 + addr - 4096

Mmc1ReadPpu(c, addr) ==
    IF addr <= 8191 THEN ChrRom(c.chr_len, Mmc1ChrIndex(c, addr))
    ELSE ArrGet(c.ppu_ram, 2048, PpuRamIndex(addr))

Mmc1WritePpu(c, addr, value) ==
    IF addr <= 8191 THEN c
    ELSE [c EXCEPT !.ppu_ram = ArrPut(@, PpuRamIndex(addr), value)]

-----------------------------------------------------------------------------
(* The Cartridge trait object: dispatch to the mapper behind it. *)

CartReadCpu(c, addr) ==
    IF c.mapper = 0 THEN NRomReadCpu(c, addr) ELSE Mmc1ReadCpu(c, addr)

CartWriteCpu(c, addr, value) ==
    IF c.mapper = 0 THEN NRomWriteCpu(c, addr, value) ELSE Mmc1WriteCpu(c, addr, value)

CartReadPpu(c, addr) ==
    IF c.mapper = 0 THEN NRomReadPpu(c, addr) ELSE Mmc1ReadPpu(c, addr)

CartWritePpu(c, addr, value) ==
    IF c.mapper = 0 THEN NRomWritePpu(c, addr, value) ELSE Mmc1WritePpu(c, addr, value)

-----------------------------------------------------------------------------
(* ppu.rs: the register surface and the PPU bus *)

\* Ppu::new
PpuNew ==
    [nmi_enable |-> FALSE, ppu_master |-> FALSE, sprite_height |-> FALSE,
     background_tile_select |-> FALSE, sprite_tile_select |-> FALSE,
     increment_mode |-> FALSE,
     color_emph_b |-> FALSE, color_emph_g |-> FALSE, color_emph_r |-> FALSE,
     sprite_enable |-> FALSE, background_enable |-> FALSE,
     sprite_left_column_enable |-> FALSE, background_left_column_enable |-> FALSE,
     greyscale |-> FALSE,
     vblank |-> FALSE, sprite_0_hit |-> FALSE, sprite_overflow |-> FALSE,
     status_artifact |-> 0, oamaddr |-> 0,
     current_vram_address |-> 0, temp_vram_address |-> 0, fine_x_scroll |-> 0,
     write_toggle |-> FALSE,
     oam |-> Zeroes, palette |-> Zeroes,
     current_scanline |-> 261, current_cycle |-> 0,
     current_nametable_byte |-> 0, current_attributetable_byte |-> 0,
     current_tilebitmap_low |-> 0, current_tilebitmap_high |-> 0]

\* The palette index without the arms for $3F10/$3F14/$3F18/$3F1C.
PaletteIndex_NoAlias(addr) == addr - 16128

\* The index into palette that read_ppu and write_ppu compute for an
\* address above $3EFF.
PaletteIndex(addr) ==
    IF addr \in {16144, 16148, 16152, 16156}
    THEN addr - 16128 - 16
    ELSE addr - 16128

\* Ppu::read_ppu.  An address above $3FFF fails the debug assertion, and
\* without it indexes palette[256..]: a panic in both builds.
PpuReadPpu(p, c, addr) ==
    IF addr > 16383 THEN PANIC
    ELSE IF addr <= 16127 THEN CartReadPpu(c, addr)
    ELSE ArrGet(p.palette, 256, PaletteIndex(addr))

\* Ppu::write_ppu storing the palette byte without the `& 0b00111111`.
PpuWritePpu_NoMask(p, c, addr, value) ==
    IF addr > 16383 THEN [ppu |-> p, cart |-> c, panic |-> TRUE]
    ELSE IF addr <= 16127 THEN
        [ppu |-> p, cart |-> CartWritePpu(c, addr, value), panic |-> FALSE]
    ELSE
        [ppu |-> [p EXCEPT !.palette = ArrPut(@, PaletteIndex(addr), value)],
         cart |-> c, panic |-> PaletteIndex(addr) >= 256]

\* Ppu::write_ppu: [ppu, cart, panic].
PpuWritePpu(p, c, addr, value) ==
    IF addr > 16383 THEN [ppu |-> p, cart |-> c, panic |-> TRUE]
    ELSE IF addr <= 16127 THEN
        [ppu |-> p, cart |-> CartWritePpu(c, addr, value), panic |-> FALSE]
    ELSE
        [ppu |-> [p EXCEPT !.palette = ArrPut(@, PaletteIndex(addr), And(value, 63))],
         cart |-> c, panic |-> PaletteIndex(addr) >= 256]

\* The increment without the `&= 0x3FFF`.
VramIncrement_NoWrap(p) ==
    p.current_vram_address + (IF p.increment_mode THEN 32 ELSE 1)

\* `current_vram_address += if increment_mode { 32 } else { 1 }; &= 0x3FFF`
VramIncrement(p) ==
    And(p.current_vram_address + (IF p.increment_mode THEN 32 ELSE 1), 16383)

\* The write-only arm of Ppu::read returning zero on the open bus.
OpenBusRead_Zero(p) ==
    [ppu |-> p, result |-> 0]

\* The arm of Ppu::read for $2000, $2001, $2003, $2005 and $2006.
OpenBusRead(p) ==
    [ppu |-> p, result |-> p.status_artifact]

\* The $2002 arm of Ppu::read that also clears the vblank flag.
StatusRead_ClearsVblank(p) ==
    [ppu |-> [p EXCEPT !.write_toggle = FALSE, !.vblank = FALSE],
     result |-> Or(Or(And(p.status_artifact, 31), Flag(p.sprite_overflow, 5)),
                   Or(Flag(p.sprite_0_hit, 6), Flag(p.vblank, 7)))]

\* The $2002 arm of Ppu::read: [ppu, result].
StatusRead(p) ==
    [ppu |-> [p EXCEPT !.write_toggle = FALSE],
     result |-> Or(Or(And(p.status_artifact, 31), Flag(p.sprite_overflow, 5)),
                   Or(Flag(p.sprite_0_hit, 6), Flag(p.vblank, 7)))]

\* Ppu::read whose $2007 arm reads at the incremented address.
PpuRead_AfterIncrement(p, c, addr) ==
    LET r == CASE addr = 8194 ->
                    StatusRead(p)
               [] addr = 8196 ->
                    [ppu |-> p, result |-> ArrGet(p.oam, 256, p.oamaddr)]
               [] addr = 8199 ->
                    [ppu |-> [p EXCEPT !.current_vram_address = VramIncrement(p)],
                     result |-> PpuReadPpu(p, c, VramIncrement(p))]
               [] addr \in {8192, 8193, 8195, 8197, 8198} ->
                    OpenBusRead(p)
               [] OTHER ->
                    [ppu |-> p, result |-> PANIC]
    IN  IF r.result = PANIC THEN [ppu |-> p, result |-> PANIC]
        ELSE [ppu |-> [r.ppu EXCEPT !.status_artifact = r.result],
              result |-> r.result]

\* Ppu::read: [ppu, result]; result = PANIC when the read panics.
PpuRead(p, c, addr) ==
    LET r == CASE addr = 8194 ->
                    StatusRead(p)
               [] addr = 8196 ->
                    [ppu |-> p, result |-> ArrGet(p.oam, 256, p.oamaddr)]
               [] addr = 8199 ->
                    [ppu |-> [p EXCEPT !.current_vram_address = VramIncrement(p)],
                     result |-> PpuReadPpu(p, c, p.current_vram_address)]
               [] addr \in {8192, 8193, 8195, 8197, 8198} ->
                    OpenBusRead(p)
               [] OTHER ->
                    [ppu |-> p, result |-> PANIC]
    IN  IF r.result = PANIC THEN [ppu |-> p, result |-> PANIC]
        ELSE [ppu |-> [r.ppu EXCEPT !.status_artifact = r.result],
              result |-> r.result]

\* The $2005 arm of Ppu::write with the two fields of the second write
\* exchanged.
ScrollWrite_SwappedFields(p, value) ==
    IF p.write_toggle
    THEN [p EXCEPT !.temp_vram_address =
                Or(Or(And(@, 65535 - 29664), And(value, 7) * 32),
                   (value \div 8) * 4096),
                   !.write_toggle = FALSE]
    ELSE [p EXCEPT !.temp_vram_address = Or(And(@, 65535 - 31), value \div 8),
                   !.fine_x_scroll = And(value, 7),
                   !.write_toggle = TRUE]

\* The $2005 arm of Ppu::write; 29664 is 0b1110011_11100000.
ScrollWrite(p, value) ==
    IF p.write_toggle
    THEN [p EXCEPT !.temp_vram_address =
                Or(Or(And(@, 65535 - 29664), (value \div 8) * 32),
                   And(value, 7) * 4096),
                   !.write_toggle = FALSE]
    ELSE [p EXCEPT !.temp_vram_address = Or(And(@, 65535 - 31), value \div 8),
                   !.fine_x_scroll = And(value, 7),
                   !.write_toggle = TRUE]

\* The $2006 arm of Ppu::write with a toggle of its own that $2005 and
\* $2002 do not reach: its first write leaves write_toggle alone.
AddrWrite_OwnToggle(p, value) ==
    IF p.write_toggle
    THEN [p EXCEPT !.temp_vram_address = Or(And(@, 65535 - 255), value),
                   !.current_vram_address =
                        Or(And(p.temp_vram_address, 65535 - 255), value),
                   !.write_toggle = FALSE]
    ELSE [p EXCEPT !.temp_vram_address =
                        Or(And(@, 65535 - 65280), And(value, 63) * 256)]

\* The $2006 arm of Ppu::write.
AddrWrite(p, value) ==
    IF p.write_toggle
    THEN [p EXCEPT !.temp_vram_address = Or(And(@, 65535 - 255), value),
                   !.current_vram_address =
                        Or(And(p.temp_vram_address, 65535 - 255), value),
                   !.write_toggle = FALSE]
    ELSE [p EXCEPT !.temp_vram_address =
                        Or(And(@, 65535 - 65280), And(value, 63) * 256),
                   !.write_toggle = TRUE]

\* Ppu::write: [ppu, cart, panic].
PpuWrite(p, c, addr, value) ==
    LET r == CASE addr = 8192 ->
                    [ppu |-> [p EXCEPT !.nmi_enable = Bit(value, 7),
                                       !.ppu_master = Bit(value, 6),
                                       !.sprite_height = Bit(value, 5),
                                       !.background_tile_select = Bit(value, 4),
                                       !.sprite_tile_select = Bit(value, 3),
                                       !.increment_mode = Bit(value, 2),
                                       !.temp_vram_address = And(value, 3) * 1024],
                     cart |-> c, panic |-> FALSE]
               [] addr = 8193 ->
                    [ppu |-> [p EXCEPT !.color_emph_b = Bit(value, 7),
                                       !.color_emph_g = Bit(value, 6),
                                       !.color_emph_r = Bit(value, 5),
                                       !.sprite_enable = Bit(value, 4),
                                       !.background_enable = Bit(value, 3),
                                       !.sprite_left_column_enable = Bit(value, 2),
                                       !.background_left_column_enable = Bit(value, 1),
                                       !.greyscale = Bit(value, 0)],
                     cart |-> c, panic |-> FALSE]
               [] addr = 8194 ->
                    [ppu |-> p, cart |-> c, panic |-> FALSE]
               [] addr = 8195 ->
                    [ppu |-> [p EXCEPT !.oamaddr = value], cart |-> c, panic |-> FALSE]
               [] addr = 8196 ->
                    [ppu |-> [p EXCEPT !.oam = ArrPut(@, p.oamaddr, value),
                                       !.oamaddr = (p.oamaddr + 1) % 256],
                     cart |-> c, panic |-> FALSE]
               [] addr = 8197 ->
                    [ppu |-> ScrollWrite(p, value), cart |-> c, panic |-> FALSE]
               [] addr = 8198 ->
                    [ppu |-> AddrWrite(p, value), cart |-> c, panic |-> FALSE]
               [] addr = 8199 ->
                    LET w == PpuWritePpu(p, c, p.current_vram_address, value) IN
                    [ppu |-> [w.ppu EXCEPT !.current_vram_address = VramIncrement(p)],
                     cart |-> w.cart, panic |-> w.panic]
               [] OTHER ->
                    [ppu |-> p, cart |-> c, panic |-> TRUE]
    IN  IF r.panic THEN [ppu |-> p, cart |-> c, panic |-> TRUE]
        ELSE [ppu |-> [r.ppu EXCEPT !.status_artifact = value],
              cart |-> r.cart, panic |-> FALSE]

\* RGB_PALETTE.len()
RGB_PALETTE_LEN == 64 * 3

\* Ppu::draw_8x1 drawing the tile row at the x it was fetched for.
Draw8x1_NoLag(p, x, y) ==
    LET attr == p.current_attributetable_byte
        attribute_value ==
            And(3, IF x % 32 < 16
                   THEN (IF y % 32 < 16 THEN attr ELSE attr \div 16)
                   ELSE (IF y % 32 < 16 THEN attr \div 4 ELSE attr \div 64))
        color_index(i) ==
            Or(Or(Flag(Bit(p.current_tilebitmap_high, 7 - i), 1),
                  Flag(Bit(p.current_tilebitmap_low, 7 - i), 0)),
               attribute_value * 4)
        color(i) ==
            IF And(color_index(i), 3) = 0
            THEN ArrGet(p.palette, 256, 0)
            ELSE ArrGet(p.palette, 256, color_index(i))
        ok(i) == color(i) * 3 + 2 < RGB_PALETTE_LEN
        drawn == IF \A i \in 0 .. 7 : ok(i) THEN 8
                 ELSE CHOOSE n \in 0 .. 7 : ~ok(n) /\ \A i \in 0 .. n - 1 : ok(i)
    IN  [pixels |-> [k \in 1 .. drawn |-> [x |-> x + 8 + (k - 1), y |-> y,
                                           color |-> color(k - 1)]],
         panic |-> drawn < 8]

\* Ppu::draw_8x1: the set_pixel calls it makes, each with the index of its
\* colour in RGB_PALETTE, up to the pixel whose colour is outside the table.
\* [pixels, panic].
Draw8x1(p, x, y) ==
    LET attr == p.current_attributetable_byte
        attribute_value ==
            And(3, IF x % 32 < 16
                   THEN (IF y % 32 < 16 THEN attr ELSE attr \div 16)
                   ELSE (IF y % 32 < 16 THEN attr \div 4 ELSE attr \div 64))
        color_index(i) ==
            Or(Or(Flag(Bit(p.current_tilebitmap_high, 7 - i), 1),
                  Flag(Bit(p.current_tilebitmap_low, 7 - i), 0)),
               attribute_value * 4)
        color(i) ==
            IF And(color_index(i), 3) = 0
            THEN ArrGet(p.palette, 256, 0)
            ELSE ArrGet(p.palette, 256, color_index(i))
        ok(i) == color(i) * 3 + 2 < RGB_PALETTE_LEN
        drawn == IF \A i \in 0 .. 7 : ok(i) THEN 8
                 ELSE CHOOSE n \in 0 .. 7 : ~ok(n) /\ \A i \in 0 .. n - 1 : ok(i)
    IN  [pixels |-> [k \in 1 .. drawn |-> [x |-> x + (k - 1), y |-> y,
                                           color |-> color(k - 1)]],
         panic |-> drawn < 8]

\* Ppu::tick_prerender_scanline
TickPrerenderScanline(p) ==
    LET p1 == IF p.current_cycle = 1 THEN [p EXCEPT !.vblank = FALSE] ELSE p
    IN  IF p1.current_cycle = 340
        THEN [p1 EXCEPT !.current_scanline = 0, !.current_cycle = 0]
        ELSE [p1 EXCEPT !.current_cycle = @ + 1]

\* Ppu::tick_visible_scanline: the table and the address of the read_ppu
\* call of this cycle, "none" on a cycle that fetches nothing.
FetchAddress(p) ==
    LET y == p.current_scanline
        tile_y == y \div 8
        in_tile_y == y % 8
        tile_x == (p.current_cycle - 1) \div 8
        fetch(table, addr) == [table |-> table, addr |-> addr % 65536]
    IN  IF p.current_cycle = 0 \/ p.current_cycle > 256
        THEN [table |-> "none", addr |-> 0]
        ELSE CASE p.current_cycle % 8 = 2 ->
                    fetch("nametable", 8192 + tile_y * 32 + tile_x)
               [] p.current_cycle % 8 = 4 ->
                    fetch("attribute", 9152 + (tile_y * 32 + tile_x) \div 4)
               [] p.current_cycle % 8 = 6 ->
                    fetch("bitmap_low", p.current_nametable_byte * 16 + in_tile_y)
               [] p.current_cycle % 8 = 0 ->
                    fetch("bitmap_high",
                          p.current_nametable_byte * 16 + in_tile_y + 8)
               [] OTHER -> [table |-> "none", addr |-> 0]

\* Ppu::tick_visible_scanline before the cycle advances: the fetch or the
\* draw of this cycle.  [ppu, pixels, panic].
VisibleCycle(p, c) ==
    LET y == p.current_scanline
        tile_y == y \div 8
        in_tile_y == y % 8
        tile_x == (p.current_cycle - 1) \div 8
        none == [ppu |-> p, pixels |-> << >>, panic |-> FALSE]
        drawing(d) == [ppu |-> p, pixels |-> d.pixels, panic |-> d.panic]
        fetched(field, value) ==
            IF value = PANIC THEN [ppu |-> p, pixels |-> << >>, panic |-> TRUE]
            ELSE [ppu |-> [p EXCEPT ![field] = value], pixels |-> << >>,
                  panic |-> FALSE]
    IN  IF p.current_cycle = 0 THEN none
        ELSE IF p.current_cycle <= 256 THEN
            CASE p.current_cycle % 8 = 1 ->
                    IF ~(y = 0 /\ tile_x = 0)
                    THEN IF tile_x = 0
                         THEN drawing(Draw8x1(p, 256 - 8, y - 1))
                         ELSE drawing(Draw8x1(p, tile_x * 8 - 8, y))
                    ELSE none
              [] p.current_cycle % 8 = 2 ->
                    fetched("current_nametable_byte",
                            PpuReadPpu(p, c, FetchAddress(p).addr))
              [] p.current_cycle % 8 = 4 ->
                    fetched("current_attributetable_byte",
                            PpuReadPpu(p, c, FetchAddress(p).addr))
              [] p.current_cycle % 8 = 6 ->
                    fetched("current_tilebitmap_low",
                            PpuReadPpu(p, c, FetchAddress(p).addr))
              [] p.current_cycle % 8 = 0 ->
                    fetched("current_tilebitmap_high",
                            PpuReadPpu(p, c, FetchAddress(p).addr))
              [] OTHER -> none
        ELSE IF p.current_cycle = 257 THEN drawing(Draw8x1(p, 256 - 8, 239))
        ELSE none

\* Ppu::tick_visible_scanline: [ppu, pixels, panic].
TickVisibleScanline(p, c) ==
    LET v == VisibleCycle(p, c)
    IN  IF v.panic THEN v
        ELSE [v EXCEPT !.ppu =
                IF p.current_cycle = 340
                THEN [v.ppu EXCEPT !.current_scanline = @ + 1, !.current_cycle = 0]
                ELSE [v.ppu EXCEPT !.current_cycle = @ + 1]]

\* Ppu::tick_postrender_scanline
TickPostrenderScanline(p) ==
    IF p.current_cycle = 340
    THEN [p EXCEPT !.current_scanline = @ + 1, !.current_cycle = 0]
    ELSE [p EXCEPT !.current_cycle = @ + 1]

\* Ppu::tick_vblank_scanline setting the flag a scanline early.
TickVblankScanline_Early(p) ==
    LET p1 == IF p.current_scanline = 241 /\ p.current_cycle = 0
              THEN [p EXCEPT !.vblank = TRUE] ELSE p
    IN  IF p1.current_cycle = 260
        THEN [p1 EXCEPT !.current_scanline = @ + 1, !.current_cycle = 0]
        ELSE [p1 EXCEPT !.current_cycle = @ + 1]

\* Ppu::tick_vblank_scanline
TickVblankScanline(p) ==
    LET p1 == IF p.current_scanline = 241 /\ p.current_cycle = 1
              THEN [p EXCEPT !.vblank = TRUE] ELSE p
    IN  IF p1.current_cycle = 260
        THEN [p1 EXCEPT !.current_scanline = @ + 1, !.current_cycle = 0]
        ELSE [p1 EXCEPT !.current_cycle = @ + 1]

\* Ppu::tick: [ppu, pixels, panic].
PpuTick(p, c) ==
    LET quiet(q) == [ppu |-> q, pixels |-> << >>, panic |-> FALSE]
    IN  IF p.current_scanline = 261 THEN quiet(TickPrerenderScanline(p))
        ELSE IF p.current_scanline <= 239 THEN TickVisibleScanline(p, c)
        ELSE IF p.current_scanline = 240 THEN quiet(TickPostrenderScanline(p))
        ELSE IF p.current_scanline <= 260 THEN quiet(TickVblankScanline(p))
        ELSE [ppu |-> p, pixels |-> << >>, panic |-> TRUE]

-----------------------------------------------------------------------------
(* cpu/cpu.rs: the CPU bus *)

\* Cpu::read_memory handing the cartridge an address relative to the start
\* of cartridge space.
ReadMemory_RelativeAddress(mem, p, c, address) ==
    IF address < PPU_START THEN
        [ppu |-> p, calls |-> << >>,
         result |-> ArrGet(mem, RAM_SIZE, And(address, RAM_SIZE - 1))]
    ELSE IF address < APU_IO_START THEN
        [ppu |-> PpuRead(p, c, address).ppu, calls |-> << >>,
         result |-> PpuRead(p, c, address).result]
    ELSE IF address < CARTRIDGE_START THEN
        [ppu |-> p, calls |-> << >>, result |-> 0]
    ELSE
        [ppu |-> p, calls |-> << <<"read_cpu", address - CARTRIDGE_START>> >>,
         result |-> CartReadCpu(c, address - CARTRIDGE_START)]

\* Cpu::read_memory: [ppu, result, calls]; calls are the cartridge's
\* CPU-side operations the access invoked.
ReadMemory(mem, p, c, address) ==
    IF address < PPU_START THEN
        [ppu |-> p, calls |-> << >>,
         result |-> ArrGet(mem, RAM_SIZE, And(address, RAM_SIZE - 1))]
    ELSE IF address < APU_IO_START THEN
        [ppu |-> PpuRead(p, c, address).ppu, calls |-> << >>,
         result |-> PpuRead(p, c, address).result]
    ELSE IF address < CARTRIDGE_START THEN
        [ppu |-> p, calls |-> << >>, result |-> 0]
    ELSE
        [ppu |-> p, calls |-> << <<"read_cpu", address>> >>,
         result |-> CartReadCpu(c, address)]

\* Cpu::write_memory reducing the address modulo RAM_SIZE - 1.
WriteMemory_ModuloMask(mem, p, c, address, value) ==
    IF address < PPU_START THEN
        [ram |-> ArrPut(mem, address % (RAM_SIZE - 1), value),
         ppu |-> p, cart |-> c, calls |-> << >>, panic |-> FALSE]
    ELSE IF address < APU_IO_START THEN
        [ram |-> mem, ppu |-> PpuWrite(p, c, address, value).ppu,
         cart |-> PpuWrite(p, c, address, value).cart,
         calls |-> << >>, panic |-> PpuWrite(p, c, address, value).panic]
    ELSE IF address < CARTRIDGE_START THEN
        [ram |-> mem, ppu |-> p, cart |-> c, calls |-> << >>, panic |-> FALSE]
    ELSE
        [ram |-> mem, ppu |-> p, cart |-> CartWriteCpu(c, address, value),
         calls |-> << <<"write_cpu", address, value>> >>, panic |-> FALSE]

\* Cpu::write_memory: [ram, ppu, cart, calls, panic].
WriteMemory(mem, p, c, address, value) ==
    IF address < PPU_START THEN
        [ram |-> ArrPut(mem, And(address, RAM_SIZE - 1), value),
         ppu |-> p, cart |-> c, calls |-> << >>, panic |-> FALSE]
    ELSE IF address < APU_IO_START THEN
        [ram |-> mem, ppu |-> PpuWrite(p, c, address, value).ppu,
         cart |-> PpuWrite(p, c, address, value).cart,
         calls |-> << >>, panic |-> PpuWrite(p, c, address, value).panic]
    ELSE IF address < CARTRIDGE_START THEN
        [ram |-> mem, ppu |-> p, cart |-> c, calls |-> << >>, panic |-> FALSE]
    ELSE
        [ram |-> mem, ppu |-> p, cart |-> CartWriteCpu(c, address, value),
         calls |-> << <<"write_cpu", address, value>> >>, panic |-> FALSE]

-----------------------------------------------------------------------------
(* cpu/cpu.rs: the status register and the register file *)

\* Status::value with the overflow flag one bit too low.
StatusValue_OverflowBit5(p, break_flag) ==
    Or(Or(Or(32, Flag(break_flag, 4)),
          Or(Or(Flag(p.carry, 0), Flag(p.zero, 1)),
             Or(Flag(p.interrupt, 2), Flag(p.decimal, 3)))),
       Or(Flag(p.overflow, 5), Flag(p.negative, 7)))

\* Status::value
StatusValue(p, break_flag) ==
    Or(Or(Or(32, Flag(break_flag, 4)),
          Or(Or(Flag(p.carry, 0), Flag(p.zero, 1)),
             Or(Flag(p.interrupt, 2), Flag(p.decimal, 3)))),
       Or(Flag(p.overflow, 6), Flag(p.negative, 7)))

\* Status::set_value
StatusSetValue(p, value) ==
    [p EXCEPT !.carry = And(value, 1) # 0,
              !.zero = And(value, 2) # 0,
              !.interrupt = And(value, 4) # 0,
              !.decimal = And(value, 8) # 0,
              !.overflow = And(value, 64) # 0,
              !.negative = And(value, 128) # 0]

\* Status::new
StatusNew ==
    StatusSetValue([carry |-> FALSE, zero |-> FALSE, interrupt |-> FALSE,
                    decimal |-> FALSE, overflow |-> FALSE, negative |-> FALSE], 52)

\* Registers::new
RegistersNew == [a |-> 0, x |-> 0, y |-> 0, pc |-> 0, s |-> 253, p |-> StatusNew]

-----------------------------------------------------------------------------
(* cpu/instructions.rs: the two opcode tables *)

\* INSTRUCTION_SIZES, indexed from 1: entry op + 1 is the size of opcode op.
INSTRUCTION_SIZES ==
    <<2, 2, 1, 2, 2, 2, 2, 2, 1, 2, 1, 2, 3, 3, 3, 3,
      2, 2, 1, 2, 2, 2, 2, 2, 1, 3, 1, 3, 3, 3, 3, 3,
      3, 2, 1, 2, 2, 2, 2, 2, 1, 2, 1, 2, 3, 3, 3, 3,
      2, 2, 1, 2, 2, 2, 2, 2, 1, 3, 1, 3, 3, 3, 3, 3,
      1, 2, 1, 2, 2, 2, 2, 2, 1, 2, 1, 2, 3, 3, 3, 3,
      2, 2, 1, 2, 2, 2, 2, 2, 1, 3, 1, 3, 3, 3, 3, 3,
      1, 2, 1, 2, 2, 2, 2, 2, 1, 2, 1, 2, 3, 3, 3, 3,
      2, 2, 1, 2, 2, 2, 2, 2, 1, 3, 1, 3, 3, 3, 3, 3,
      2, 2, 2, 2, 2, 2, 2, 2, 1, 2, 1, 1, 3, 3, 3, 3,
      2, 2, 1, 1, 2, 2, 2, 2, 1, 3, 1, 1, 1, 3, 1, 1,
      2, 2, 2, 2, 2, 2, 2, 2, 1, 2, 1, 2, 3, 3, 3, 3,
      2, 2, 1, 2, 2, 2, 2, 2, 1, 3, 1, 1, 3, 3, 3, 3,
      2, 2, 2, 2, 2, 2, 2, 2, 1, 2, 1, 2, 3, 3, 3, 3,
      2, 2, 1, 2, 2, 2, 2, 2, 1, 3, 1, 3, 3, 3, 3, 3,
      2, 2, 2, 2, 2, 2, 2, 2, 1, 2, 1, 2, 3, 3, 3, 3,
      2, 2, 1, 2, 2, 2, 2, 2, 1, 3, 1, 3, 3, 3, 3, 3>>

\* INSTRUCTIONS, indexed from 1: the operation and the addressing mode of
\* each dispatch entry ("" for an operation without a mode parameter).
INSTRUCTIONS ==
    << <<"BRK", "">>, <<"ORA", "IndirectX">>, <<"TODO", "">>, <<"SLO", "IndirectX">>,
      <<"NOPMulti", "ZeroPage">>, <<"ORA", "ZeroPage">>, <<"ASL", "ZeroPage">>, <<"SLO", "ZeroPage">>,
      <<"PHP", "">>, <<"ORA", "Immediate">>, <<"ASL", "Accumulator">>, <<"ANC", "Immediate">>,
      <<"NOPMulti", "Absolute">>, <<"ORA", "Absolute">>, <<"ASL", "Absolute">>, <<"SLO", "Absolute">>,
      <<"BPL", "">>, <<"ORA", "IndirectY">>, <<"TODO", "">>, <<"SLO", "IndirectY">>,
      <<"NOPMulti", "ZeroPageX">>, <<"ORA", "ZeroPageX">>, <<"ASL", "ZeroPageX">>, <<"SLO", "ZeroPageX">>,
      <<"CLC", "">>, <<"ORA", "AbsoluteY">>, <<"NOPSingle", "">>, <<"SLO", "AbsoluteY">>,
      <<"NOPMulti", "AbsoluteX">>, <<"ORA", "AbsoluteX">>, <<"ASL", "AbsoluteX">>, <<"SLO", "AbsoluteX">>,
      <<"JSR", "">>, <<"AND", "IndirectX">>, <<"TODO", "">>, <<"RLA", "IndirectX">>,
      <<"BIT", "ZeroPage">>, <<"AND", "ZeroPage">>, <<"ROL", "ZeroPage">>, <<"RLA", "ZeroPage">>,
      <<"PLP", "">>, <<"AND", "Immediate">>, <<"ROL", "Accumulator">>, <<"ANC", "Immediate">>,
      <<"BIT", "Absolute">>, <<"AND", "Absolute">>, <<"ROL", "Absolute">>, <<"RLA", "Absolute">>,
      <<"BMI", "">>, <<"AND", "IndirectY">>, <<"TODO", "">>, <<"RLA", "IndirectY">>,
      <<"NOPMulti", "ZeroPageX">>, <<"AND", "ZeroPageX">>, <<"ROL", "ZeroPageX">>, <<"RLA", "ZeroPageX">>,
      <<"SEC", "">>, <<"AND", "AbsoluteY">>, <<"NOPSingle", "">>, <<"RLA", "AbsoluteY">>,
      <<"NOPMulti", "AbsoluteX">>, <<"AND", "AbsoluteX">>, <<"ROL", "AbsoluteX">>, <<"RLA", "AbsoluteX">>,
      <<"RTI", "">>, <<"EOR", "IndirectX">>, <<"TODO", "">>, <<"SRE", "IndirectX">>,
      <<"NOPMulti", "ZeroPage">>, <<"EOR", "ZeroPage">>, <<"LSR", "ZeroPage">>, <<"SRE", "ZeroPage">>,
      <<"PHA", "">>, <<"EOR", "Immediate">>, <<"LSR", "Accumulator">>, <<"ALR", "Immediate">>,
      <<"JMPAbsolute", "">>, <<"EOR", "Absolute">>, <<"LSR", "Absolute">>, <<"SRE", "Absolute">>,
      <<"BVC", "">>, <<"EOR", "IndirectY">>, <<"TODO", "">>, <<"SRE", "IndirectY">>,
      <<"NOPMulti", "ZeroPageX">>, <<"EOR", "ZeroPageX">>, <<"LSR", "ZeroPageX">>, <<"SRE", "ZeroPageX">>,
      <<"CLI", "">>, <<"EOR", "AbsoluteY">>, <<"NOPSingle", "">>, <<"SRE", "AbsoluteY">>,
      <<"NOPMulti", "AbsoluteX">>, <<"EOR", "AbsoluteX">>, <<"LSR", "AbsoluteX">>, <<"SRE", "AbsoluteX">>,
      <<"RTS", "">>, <<"ADC", "IndirectX">>, <<"TODO", "">>, <<"RRA", "IndirectX">>,
      <<"NOPMulti", "ZeroPage">>, <<"ADC", "ZeroPage">>, <<"ROR", "ZeroPage">>, <<"RRA", "ZeroPage">>,
      <<"PLA", "">>, <<"ADC", "Immediate">>, <<"ROR", "Accumulator">>, <<"ARR", "Immediate">>,
      <<"JMPIndirect", "">>, <<"ADC", "Absolute">>, <<"ROR", "Absolute">>, <<"RRA", "Absolute">>,
      <<"BVS", "">>, <<"ADC", "IndirectY">>, <<"TODO", "">>, <<"RRA", "IndirectY">>,
      <<"NOPMulti", "ZeroPageX">>, <<"ADC", "ZeroPageX">>, <<"ROR", "ZeroPageX">>, <<"RRA", "ZeroPageX">>,
      <<"SEI", "">>, <<"ADC", "AbsoluteY">>, <<"NOPSingle", "">>, <<"RRA", "AbsoluteY">>,
      <<"NOPMulti", "AbsoluteX">>, <<"ADC", "AbsoluteX">>, <<"ROR", "AbsoluteX">>, <<"RRA", "AbsoluteX">>,
      <<"NOPMulti", "Immediate">>, <<"STA", "IndirectX">>, <<"NOPMulti", "Immediate">>, <<"SAX", "IndirectX">>,
      <<"STY", "ZeroPage">>, <<"STA", "ZeroPage">>, <<"STX", "ZeroPage">>, <<"SAX", "ZeroPage">>,
      <<"DEY", "">>, <<"NOPMulti", "Immediate">>, <<"TXA", "">>, <<"TODO", "">>,
      <<"STY", "Absolute">>, <<"STA", "Absolute">>, <<"STX", "Absolute">>, <<"SAX", "Absolute">>,
      <<"BCC", "">>, <<"STA", "IndirectY">>, <<"TODO", "">>, <<"TODO", "">>,
      <<"STY", "ZeroPageX">>, <<"STA", "ZeroPageX">>, <<"STX", "ZeroPageY">>, <<"SAX", "ZeroPageY">>,
      <<"TYA", "">>, <<"STA", "AbsoluteY">>, <<"TXS", "">>, <<"TODO", "">>,
      <<"TODO", "">>, <<"STA", "AbsoluteX">>, <<"TODO", "">>, <<"TODO", "">>,
      <<"LDY", "Immediate">>, <<"LDA", "IndirectX">>, <<"LDX", "Immediate">>, <<"LAX", "IndirectX">>,
      <<"LDY", "ZeroPage">>, <<"LDA", "ZeroPage">>, <<"LDX", "ZeroPage">>, <<"LAX", "ZeroPage">>,
      <<"TAY", "">>, <<"LDA", "Immediate">>, <<"TAX", "">>, <<"LAX", "Immediate">>,
      <<"LDY", "Absolute">>, <<"LDA", "Absolute">>, <<"LDX", "Absolute">>, <<"LAX", "Absolute">>,
      <<"BCS", "">>, <<"LDA", "IndirectY">>, <<"TODO", "">>, <<"LAX", "IndirectY">>,
      <<"LDY", "ZeroPageX">>, <<"LDA", "ZeroPageX">>, <<"LDX", "ZeroPageY">>, <<"LAX", "ZeroPageY">>,
      <<"CLV", "">>, <<"LDA", "AbsoluteY">>, <<"TSX", "">>, <<"TODO", "">>,
      <<"LDY", "AbsoluteX">>, <<"LDA", "AbsoluteX">>, <<"LDX", "AbsoluteY">>, <<"LAX", "AbsoluteY">>,
      <<"CPY", "Immediate">>, <<"CMP", "IndirectX">>, <<"NOPMulti", "Immediate">>, <<"DCP", "IndirectX">>,
      <<"CPY", "ZeroPage">>, <<"CMP", "ZeroPage">>, <<"DEC", "ZeroPage">>, <<"DCP", "ZeroPage">>,
      <<"INY", "">>, <<"CMP", "Immediate">>, <<"DEX", "">>, <<"AXS", "Immediate">>,
      <<"CPY", "Absolute">>, <<"CMP", "Absolute">>, <<"DEC", "Absolute">>, <<"DCP", "Absolute">>,
      <<"BNE", "">>, <<"CMP", "IndirectY">>, <<"TODO", "">>, <<"DCP", "IndirectY">>,
      <<"NOPMulti", "ZeroPageX">>, <<"CMP", "ZeroPageX">>, <<"DEC", "ZeroPageX">>, <<"DCP", "ZeroPageX">>,
      <<"CLD", "">>, <<"CMP", "AbsoluteY">>, <<"NOPSingle", "">>, <<"DCP", "AbsoluteY">>,
      <<"NOPMulti", "AbsoluteX">>, <<"CMP", "AbsoluteX">>, <<"DEC", "AbsoluteX">>, <<"DCP", "AbsoluteX">>,
      <<"CPX", "Immediate">>, <<"SBC", "IndirectX">>, <<"NOPMulti", "Immediate">>, <<"ISB", "IndirectX">>,
      <<"CPX", "ZeroPage">>, <<"SBC", "ZeroPage">>, <<"INC", "ZeroPage">>, <<"ISB", "ZeroPage">>,
      <<"INX", "">>, <<"SBC", "Immediate">>, <<"NOPSingle", "">>, <<"SBC", "Immediate">>,
      <<"CPX", "Absolute">>, <<"SBC", "Absolute">>, <<"INC", "Absolute">>, <<"ISB", "Absolute">>,
      <<"BEQ", "">>, <<"SBC", "IndirectY">>, <<"TODO", "">>, <<"ISB", "IndirectY">>,
      <<"NOPMulti", "ZeroPageX">>, <<"SBC", "ZeroPageX">>, <<"INC", "ZeroPageX">>, <<"ISB", "ZeroPageX">>,
      <<"SED", "">>, <<"SBC", "AbsoluteY">>, <<"NOPSingle", "">>, <<"ISB", "AbsoluteY">>,
      <<"NOPMulti", "AbsoluteX">>, <<"SBC", "AbsoluteX">>, <<"INC", "AbsoluteX">>, <<"ISB", "AbsoluteX">>>>

\* INSTRUCTION_SIZES with the entry of $19 (ORA absolute,Y) set to 2.
InstructionSize_Ora19(opcode) ==
    IF opcode = 25 THEN 2 ELSE INSTRUCTION_SIZES[opcode + 1]

\* INSTRUCTION_SIZES[opcode]
InstructionSize(opcode) == INSTRUCTION_SIZES[opcode + 1]

\* The dispatch table with the killer opcode $02 completing as a NOP.
Instruction_KillAsNop(opcode) ==
    IF opcode = 2 THEN <<"NOPSingle", "">> ELSE INSTRUCTIONS[opcode + 1]

\* INSTRUCTIONS[opcode]
Instruction(opcode) == INSTRUCTIONS[opcode + 1]

\* The width in bits of the operand field a dispatch entry reads, in execute
\* or in asm_str: opcode8 for the addressing modes and operations that call
\* cpu.opcode8(), opcode16 for those that call cpu.opcode16(), 0 for the rest.
OperandField(instr) ==
    IF \/ instr[2] \in {"Immediate", "ZeroPage", "ZeroPageX", "ZeroPageY",
                        "IndirectX", "IndirectY"}
       \/ instr[1] \in {"BCC", "BCS", "BEQ", "BMI", "BNE", "BPL", "BVC", "BVS"}
    THEN 8
    ELSE IF \/ instr[2] \in {"Absolute", "AbsoluteX", "AbsoluteY"}
            \/ instr[1] \in {"JMPAbsolute", "JMPIndirect", "JSR"}
    THEN 16
    ELSE 0

\* The fetch and decode part of Cpu::tick, up to `self.registers.pc = pc`:
\* the bytes read at pc, pc + 1, pc + 2, the two operand fields and the new pc.
Fetch(regs, o8, o16, mem, p, c) ==
    LET pc0 == regs.pc
        r0 == ReadMemory(mem, p, c, pc0)
        pc1 == (pc0 + 1) % 65536
        r1 == ReadMemory(mem, r0.ppu, c, pc1)
        pc2 == (pc1 + 1) % 65536
        r2 == ReadMemory(mem, r1.ppu, c, pc2)
        pc3 == (pc2 + 1) % 65536
        size == IF r0.result = PANIC THEN 0 ELSE InstructionSize(r0.result)
    IN  CASE size = 1 ->
                [opcode |-> r0.result, pc |-> pc1, opcode8 |-> o8, opcode16 |-> o16,
                 ppu |-> r0.ppu, reads |-> <<pc0>>, calls |-> r0.calls,
                 panic |-> FALSE]
          [] size = 2 ->
                [opcode |-> r0.result, pc |-> pc2, opcode8 |-> r1.result,
                 opcode16 |-> o16, ppu |-> r1.ppu, reads |-> <<pc0, pc1>>,
                 calls |-> r0.calls \o r1.calls,
                 panic |-> r1.result = PANIC]
          [] size = 3 ->
                [opcode |-> r0.result, pc |-> pc3, opcode8 |-> o8,
                 opcode16 |-> Or(r2.result * 256, r1.result),
                 ppu |-> r2.ppu, reads |-> <<pc0, pc1, pc2>>,
                 calls |-> r0.calls \o r1.calls \o r2.calls,
                 panic |-> r1.result = PANIC \/ r2.result = PANIC]
          [] OTHER ->
                [opcode |-> r0.result, pc |-> pc0, opcode8 |-> o8, opcode16 |-> o16,
                 ppu |-> p, reads |-> <<pc0>>, calls |-> r0.calls, panic |-> TRUE]

\* STACK_START
STACK_START == 256

\* Cpu::jump_to_start: [registers, ppu, calls, panic].
JumpToStart(regs, mem, p, c) ==
    LET lo == ReadMemory(mem, p, c, 65532)
        hi == ReadMemory(mem, lo.ppu, c, 65533)
    IN  [registers |-> [regs EXCEPT !.pc = Or(hi.result * 256, lo.result)],
         ppu |-> hi.ppu, calls |-> lo.calls \o hi.calls,
         panic |-> lo.result = PANIC \/ hi.result = PANIC]

\* `self.write_memory(hw, STACK_START + sp as u16, value)` on the machine
\* st = [ram, ppu, cart, calls, panic].
Push(st, sp, value) ==
    LET w == WriteMemory(st.ram, st.ppu, st.cart, STACK_START + sp, value)
    IN  [ram |-> w.ram, ppu |-> w.ppu, cart |-> w.cart,
         calls |-> st.calls \o w.calls, panic |-> st.panic \/ w.panic]

\* `read_memory(hw, address) as u16 | (read_memory(hw, address + 1) as u16) << 8`
\* [value, ppu, calls, panic].
ReadVector(mem, p, c, address) ==
    LET lo == ReadMemory(mem, p, c, address)
        hi == ReadMemory(mem, lo.ppu, c, address + 1)
    IN  [value |-> Or(hi.result * 256, lo.result), ppu |-> hi.ppu,
         calls |-> lo.calls \o hi.calls,
         panic |-> lo.result = PANIC \/ hi.result = PANIC]

\* The end of Cpu::jump_to_interrupt, after the three pushes have left the
\* machine st and the vector v has been read: I, S and PC.
InterruptLoad(regs, st, v) ==
    [registers |-> [regs EXCEPT !.pc = v.value,
                                !.p.interrupt = TRUE,
                                !.s = (regs.s + 253) % 256],
     ram |-> st.ram, ppu |-> v.ppu, cart |-> st.cart,
     calls |-> st.calls \o v.calls, panic |-> st.panic \/ v.panic]

\* Cpu::jump_to_interrupt after its three pushes have left the machine st:
\* the vector at $FFFE/$FFFF is read, then I, S and PC are assigned.
InterruptVector(regs, st) ==
    InterruptLoad(regs, st, ReadVector(st.ram, st.ppu, st.cart, 65534))

\* Cpu::jump_to_interrupt packing the status after the I flag is set.
JumpToInterrupt_StatusAfterI(regs, mem, p, c, break_flag) ==
    InterruptVector(
        regs,
        Push(Push(Push([ram |-> mem, ppu |-> p, cart |-> c, calls |-> << >>,
                        panic |-> FALSE],
                       regs.s, regs.pc \div 256),
                  (regs.s + 255) % 256, regs.pc % 256),
             (regs.s + 254) % 256,
             StatusValue([regs.p EXCEPT !.interrupt = TRUE], break_flag)))

\* Cpu::jump_to_interrupt: [registers, ram, ppu, cart, calls, panic].  The
\* old PC, high byte first, and then the status as it is before I is set are
\* pushed, the stack pointer wrapping in page 1.
JumpToInterrupt(regs, mem, p, c, break_flag) ==
    InterruptVector(
        regs,
        Push(Push(Push([ram |-> mem, ppu |-> p, cart |-> c, calls |-> << >>,
                        panic |-> FALSE],
                       regs.s, regs.pc \div 256),
                  (regs.s + 255) % 256, regs.pc % 256),
             (regs.s + 254) % 256,
             StatusValue(regs.p, break_flag)))

(***************************************************************************)
(* cpu/instructions.rs: the stack instructions                             *)
(***************************************************************************)

\* `cpu.read_memory(hw, STACK_START + sp as u16)`
StackRead(m, sp) == ReadMemory(m.ram, m.ppu, m.cart, STACK_START + sp).result

\* The machine st with the registers regs.
WithRegisters(regs, st) ==
    [registers |-> regs, ram |-> st.ram, ppu |-> st.ppu, cart |-> st.cart,
     calls |-> st.calls, panic |-> st.panic]

\* OpPLA and OpPLP reading at S before the increment.
OpPull_ReadFirst(name, m) ==
    IF name = "PLA"
    THEN [m EXCEPT !.registers.a = StackRead(m, m.registers.s),
                   !.registers.s = (@ + 1) % 256,
                   !.registers.p.zero = (StackRead(m, m.registers.s) = 0),
                   !.registers.p.negative = Bit(StackRead(m, m.registers.s), 7)]
    ELSE [m EXCEPT !.registers.p = StatusSetValue(@, StackRead(m, m.registers.s)),
                   !.registers.s = (@ + 1) % 256]

\* OpPHA::execute and OpPHP::execute
OpPush(name, m) ==
    WithRegisters([m.registers EXCEPT !.s = (@ + 255) % 256],
                  Push(m, m.registers.s,
                       IF name = "PHA" THEN m.registers.a
                       ELSE StatusValue(m.registers.p, TRUE)))

\* OpPLA::execute and OpPLP::execute
OpPull(name, m) ==
    IF name = "PLA"
    THEN [m EXCEPT !.registers.a = StackRead(m, (m.registers.s + 1) % 256),
                   !.registers.s = (@ + 1) % 256,
                   !.registers.p.zero = (StackRead(m, (m.registers.s + 1) % 256) = 0),
                   !.registers.p.negative =
                        Bit(StackRead(m, (m.registers.s + 1) % 256), 7)]
    ELSE [m EXCEPT !.registers.p =
                        StatusSetValue(@, StackRead(m, (m.registers.s + 1) % 256)),
                   !.registers.s = (@ + 1) % 256]

\* OpJSR::execute pushing the post-fetch PC itself.
OpJSR_PushesPc(m, o16) ==
    WithRegisters([m.registers EXCEPT !.pc = o16, !.s = (@ + 254) % 256],
                  Push(Push(m, m.registers.s, m.registers.pc \div 256),
                       (m.registers.s + 255) % 256, m.registers.pc % 256))

\* OpJSR::execute: pc - 1 is pushed, high byte first
OpJSR(m, o16) ==
    WithRegisters([m.registers EXCEPT !.pc = o16, !.s = (@ + 254) % 256],
                  Push(Push(m, m.registers.s,
                            ((m.registers.pc + 65535) % 65536) \div 256),
                       (m.registers.s + 255) % 256,
                       ((m.registers.pc + 65535) % 65536) % 256))

\* OpRTS::execute
OpRTS(m) ==
    [m EXCEPT !.registers.pc =
                    (Or(StackRead(m, (m.registers.s + 2) % 256) * 256,
                        StackRead(m, (m.registers.s + 1) % 256)) + 1) % 65536,
              !.registers.s = (@ + 2) % 256]

\* OpRTI::execute
OpRTI(m) ==
    [m EXCEPT !.registers.pc =
                    Or(StackRead(m, (m.registers.s + 3) % 256) * 256,
                       StackRead(m, (m.registers.s + 2) % 256)),
              !.registers.s = (@ + 3) % 256,
              !.registers.p =
                    StatusSetValue(@, StackRead(m, (m.registers.s + 1) % 256))]

\* Instruction::execute of the instructions that use the stack
ExecuteStack(name, m, o16) ==
    CASE name \in {"PHA", "PHP"} -> OpPush(name, m)
      [] name \in {"PLA", "PLP"} -> OpPull(name, m)
      [] name = "JSR" -> OpJSR(m, o16)
      [] name = "RTS" -> OpRTS(m)
      [] name = "RTI" -> OpRTI(m)
      [] name = "BRK" ->
            JumpToInterrupt(m.registers, m.ram, m.ppu, m.cart, TRUE)
      [] name = "NOPSingle" -> m

\* The dispatch entries whose execute is modelled: OpBRK, OpNOPSingle,
\* OpJMPAbsolute, OpTODO, OpSTA<AddrAbsolute> and the stack instructions.
ExecuteModelled ==
    {<<"BRK", "">>, <<"NOPSingle", "">>, <<"JMPAbsolute", "">>, <<"TODO", "">>,
     <<"STA", "Absolute">>, <<"PHA", "">>, <<"PHP", "">>, <<"PLA", "">>,
     <<"PLP", "">>, <<"JSR", "">>, <<"RTS", "">>, <<"RTI", "">>}

\* An execute that leaves the registers regs and the machine of the bus
\* write w.
ExecuteWrite(regs, w) ==
    [registers |-> regs, ram |-> w.ram, ppu |-> w.ppu, cart |-> w.cart,
     calls |-> w.calls, panic |-> w.panic]

\* Instruction::execute of the dispatch entry instr, for the entries of
\* ExecuteModelled: [registers, ram, ppu, cart, calls, panic].
Execute(instr, regs, o16, mem, p, c) ==
    CASE instr[1] = "BRK" -> JumpToInterrupt(regs, mem, p, c, TRUE)
      [] instr[1] = "NOPSingle" ->
            [registers |-> regs, ram |-> mem, ppu |-> p, cart |-> c,
             calls |-> << >>, panic |-> FALSE]
      [] instr[1] = "JMPAbsolute" ->
            [registers |-> [regs EXCEPT !.pc = o16], ram |-> mem, ppu |-> p,
             cart |-> c, calls |-> << >>, panic |-> FALSE]
      [] instr[1] = "TODO" ->
            [registers |-> regs, ram |-> mem, ppu |-> p, cart |-> c,
             calls |-> << >>, panic |-> TRUE]
      [] instr = <<"STA", "Absolute">> ->
            ExecuteWrite(regs, WriteMemory(mem, p, c, o16, regs.a))
      [] instr[1] \in {"PHA", "PHP", "PLA", "PLP", "JSR", "RTS", "RTI"} ->
            ExecuteStack(instr[1],
                         [registers |-> regs, ram |-> mem, ppu |-> p, cart |-> c,
                          calls |-> << >>, panic |-> FALSE],
                         o16)

\* What Cpu::tick leaves after the fetch f and the execute e.
TickResult(f, e) ==
    [registers |-> e.registers, opcode8 |-> f.opcode8, opcode16 |-> f.opcode16,
     ram |-> e.ram, ppu |-> e.ppu, cart |-> e.cart,
     calls |-> f.calls \o e.calls, panic |-> e.panic, opcode |-> f.opcode]

\* Cpu::tick after the fetch f: `self.registers.pc = pc`, then execute.
TickExecute(regs, mem, c, f) ==
    IF f.panic
    THEN [registers |-> regs, opcode8 |-> f.opcode8, opcode16 |-> f.opcode16,
          ram |-> mem, ppu |-> f.ppu, cart |-> c, calls |-> f.calls,
          panic |-> TRUE, opcode |-> f.opcode]
    ELSE TickResult(f, Execute(Instruction(f.opcode), [regs EXCEPT !.pc = f.pc],
                               f.opcode16, mem, f.ppu, c))

\* Cpu::tick, whole: fetch and decode, `self.registers.pc = pc`, execute.
\* [registers, opcode8, opcode16, ram, ppu, cart, calls, panic, opcode].
CpuTick(regs, o8, o16, mem, p, c) ==
    TickExecute(regs, mem, c, Fetch(regs, o8, o16, mem, p, c))

\* The opcode byte a tick would fetch has a modelled dispatch entry.
TickModelled(regs, mem, p, c) ==
    LET op == ReadMemory(mem, p, c, regs.pc).result
    IN  op # PANIC /\ Instruction(op) \in ExecuteModelled

-----------------------------------------------------------------------------
(* State *)

VARIABLES
    ram,          \* Cpu.ram
    registers,    \* Cpu.registers
    opcode8,      \* Cpu.opcode8
    opcode16,     \* Cpu.opcode16
    ppu,          \* the Ppu behind Hardware.ppu
    cartridge,    \* the mapper behind Hardware.cartridge
    bus,          \* the access made last: [op, addr, value, result]
    calls,        \* the cartridge's CPU-side operations that access invoked
    drv,          \* the driver's position and what it has noted down
    panicked,     \* the program has panicked
    nops          \* the number of operations made so far

vars == <<ram, registers, opcode8, opcode16, ppu, cartridge, bus, calls, drv,
          panicked, nops>>

NoAccess == [op |-> "none", addr |-> 0, value |-> 0, result |-> 0]

\* Cpu::new
CpuNew == ram = Zeroes /\ registers = RegistersNew /\ opcode8 = 0 /\ opcode16 = 0

-----------------------------------------------------------------------------
(* Spec: the CPU bus.  A driver makes up to MaxBusOps reads and writes     *)
(* through Cpu::read_memory and Cpu::write_memory, at addresses of every   *)
(* region of the memory map, on a freshly constructed machine.             *)

MaxBusOps == 2

\* Internal RAM and its three mirrors.
RamAddrs == {0, 1, 2047, 2048, 2049, 4097, 6144, 8191}
\* PPU registers and two of their mirrors.
PpuAddrs == {8192, 8194, 8197, 8198, 8199, 8200, 16383}
\* The APU/IO stub.
ApuAddrs == {16384, 16415}
\* Cartridge space: unmapped, PRG-RAM, PRG-ROM.
CartAddrs == {16416, 24577, 32768, 49153, 65535}
BusAddrs == RamAddrs \cup PpuAddrs \cup ApuAddrs \cup CartAddrs
BusValues == {0, 165}

\* An NROM and an MMC1 cartridge as NRom::new and Mmc1::new build them.
BusCartridges ==
    {NRomNew(16 * 1024, 8 * 1024, 2048, "HorizontalMirroring"),
     Mmc1New(256 * 1024, 128 * 1024, 8 * 1024)}

Init ==
    /\ CpuNew
    /\ ppu = PpuNew
    /\ cartridge \in BusCartridges
    /\ bus = NoAccess
    /\ calls = << >>
    /\ drv = [stage |-> "bus"]
    /\ panicked = FALSE
    /\ nops = 0

CpuWrite(address, value) ==
    /\ ~panicked
    /\ nops < MaxBusOps
    /\ LET w == WriteMemory(ram, ppu, cartridge, address, value) IN
        /\ ram' = w.ram
        /\ ppu' = w.ppu
        /\ cartridge' = w.cart
        /\ calls' = w.calls
        /\ panicked' = w.panic
    /\ bus' = [op |-> "write", addr |-> address, value |-> value, result |-> 0]
    /\ nops' = nops + 1
    /\ UNCHANGED <<registers, opcode8, opcode16, drv>>

CpuRead(address) ==
    /\ ~panicked
    /\ nops < MaxBusOps
    /\ LET r == ReadMemory(ram, ppu, cartridge, address) IN
        /\ ppu' = r.ppu
        /\ calls' = r.calls
        /\ panicked' = (r.result = PANIC)
        /\ bus' = [op |-> "read", addr |-> address, value |-> 0, result |-> r.result]
    /\ nops' = nops + 1
    /\ UNCHANGED <<ram, cartridge, registers, opcode8, opcode16, drv>>

Next ==
    \/ \E address \in BusAddrs, value \in BusValues : CpuWrite(address, value)
    \/ \E address \in BusAddrs : CpuRead(address)

Spec == Init /\ [][Next]_vars

-----------------------------------------------------------------------------
(* Properties of the CPU bus *)

\* What a CPU read of address a returns in the current state.
ReadRam(a) == ReadMemory(ram, ppu, cartridge, a).result

\* Five cells of the internal RAM, each at its four bus addresses.
RamProbe == {o + 2048 * k : o \in {0, 1, 2, 1024, 2047}, k \in 0 .. 3}

\* C1: a CPU read of an address a in $0000-$1FFF returns the value most
\* recently written to an address a' in $0000-$1FFF with a' mod 2048 =
\* a mod 2048, and 0 if there was none: every cell reads 0 after
\* construction, a write to such an a' makes every a of its residue read the
\* written value and leaves the other cells alone, and no other access (a
\* read, a write outside $0000-$1FFF) changes what a read returns.
C1_RamMirrored ==
    /\ \A a \in RamProbe : ReadRam(a) = 0
    /\ [][\A a \in RamProbe :
            ReadMemory(ram', ppu', cartridge', a).result =
                IF /\ bus'.op = "write"
                   /\ bus'.addr \in 0 .. 8191
                   /\ bus'.addr % 2048 = a % 2048
                THEN bus'.value
                ELSE ReadRam(a)]_vars

\* A read through the mirror $1001 has returned a value written before.
C1_Witness ==
    /\ bus.op = "read" /\ bus.addr = 4097 /\ bus.result = 165
    /\ ReadRam(1) = 165 /\ ReadRam(2049) = 165 /\ ReadRam(0) = 0

\* C2: every access to an address a in $2000-$3FFF completes, and leaves the
\* PPU and the cartridge as the same access to $2000 + (a mod 8) would, with
\* the same result.
C2_PpuRegistersMirrored ==
    [][bus'.addr \in 8192 .. 16383 =>
        LET reg == 8192 + (bus'.addr % 8) IN
        /\ ~panicked'
        /\ bus'.op = "write" =>
            /\ ppu' = PpuWrite(ppu, cartridge, reg, bus'.value).ppu
            /\ cartridge' = PpuWrite(ppu, cartridge, reg, bus'.value).cart
        /\ bus'.op = "read" =>
            /\ ppu' = PpuRead(ppu, cartridge, reg).ppu
            /\ bus'.result = PpuRead(ppu, cartridge, reg).result]_vars

\* C3: an access to an address a >= $4020 reaches the cartridge as exactly
\* one read_cpu or write_cpu with the unmasked address (and the written
\* value) and touches neither the internal RAM nor the PPU; an access below
\* $4020 calls no CPU-side operation of the cartridge.
C3_CartridgeRouting ==
    [][/\ bus'.addr >= 16416 =>
            /\ calls' = IF bus'.op = "read"
                        THEN << <<"read_cpu", bus'.addr>> >>
                        ELSE << <<"write_cpu", bus'.addr, bus'.value>> >>
            /\ ram' = ram
            /\ ppu' = ppu
       /\ bus'.addr < 16416 => calls' = << >>]_vars

\* A write to PRG-RAM at $6001 and a read of the last PRG-ROM byte have
\* reached the cartridge.
C3_Witness ==
    /\ bus.op = "read" /\ bus.addr = 65535
    /\ calls = << <<"read_cpu", 65535>> >>
    /\ CartReadCpu(cartridge, 24577) = 165

-----------------------------------------------------------------------------
(* SpecStatus: the status register.  From any combination of the six      *)
(* flags the register is packed into a byte (PHP, BRK, an interrupt, the   *)
(* instruction log), the flags are changed by whatever runs in between,    *)
(* and the byte is unpacked again (PLP, RTI).                              *)

StatusFlags ==
    [carry : BOOLEAN, zero : BOOLEAN, interrupt : BOOLEAN,
     decimal : BOOLEAN, overflow : BOOLEAN, negative : BOOLEAN]

InitStatus ==
    /\ ram = Zeroes /\ opcode8 = 0 /\ opcode16 = 0
    /\ \E p \in StatusFlags : registers = [RegistersNew EXCEPT !.p = p]
    /\ ppu = PpuNew
    /\ cartridge = NRomNew(16 * 1024, 8 * 1024, 2048, "HorizontalMirroring")
    /\ bus = NoAccess
    /\ calls = << >>
    /\ drv = [stage |-> "idle", byte |-> 0, b |-> FALSE, before |-> registers.p,
              clobbered |-> FALSE]
    /\ panicked = FALSE
    /\ nops = 0

StatusOthers == <<ram, opcode8, opcode16, ppu, cartridge, bus, calls, panicked, nops>>

\* registers.p.value(b)
StatusPack(b) ==
    /\ drv' = [stage |-> "packed", byte |-> StatusValue(registers.p, b), b |-> b,
               before |-> registers.p, clobbered |-> FALSE]
    /\ UNCHANGED <<registers, StatusOthers>>

\* The flags change while the packed byte is kept (on the stack).
StatusClobber(p) ==
    /\ drv.stage = "packed"
    /\ registers' = [registers EXCEPT !.p = p]
    /\ drv' = [drv EXCEPT !.clobbered = TRUE]
    /\ UNCHANGED StatusOthers

\* registers.p.set_value(byte)
StatusUnpack ==
    /\ drv.stage = "packed"
    /\ registers' = [registers EXCEPT !.p = StatusSetValue(registers.p, drv.byte)]
    /\ drv' = [drv EXCEPT !.stage = "unpacked"]
    /\ UNCHANGED StatusOthers

NextStatus ==
    \/ \E b \in BOOLEAN : StatusPack(b)
    \/ \E p \in StatusFlags : StatusClobber(p)
    \/ StatusUnpack

SpecStatus == InitStatus /\ [][NextStatus]_vars

\* C4: the byte packed from the status register with break argument b has bit
\* 5 set and bit 4 equal to b, and unpacking that byte restores all six flags
\* to what they were when it was packed, whatever they were in between.
C4_StatusRoundTrip ==
    /\ drv.stage \in {"packed", "unpacked"} =>
        /\ Bit(drv.byte, 5)
        /\ Bit(drv.byte, 4) = drv.b
    /\ drv.stage = "unpacked" => registers.p = drv.before

\* A register with carry, overflow and negative set was packed with b set,
\* overwritten, and restored from the byte $F1.
C4_Witness ==
    /\ drv.stage = "unpacked" /\ drv.clobbered /\ drv.b
    /\ drv.byte = 241
    /\ registers.p.carry /\ registers.p.overflow /\ registers.p.negative
    /\ ~registers.p.zero /\ ~registers.p.interrupt /\ ~registers.p.decimal

-----------------------------------------------------------------------------
(* SpecFetch: one Cpu::tick.  An instruction of every opcode sits at a     *)
(* program counter in RAM, at the end of RAM before its first mirror, or   *)
(* at the end of the address space, where PRG-ROM supplies the opcode.     *)

FetchPcs == {16, 2047, 65534, 65535}
\* The operand bytes after the opcode: low, high.
FetchOperands == {<<52, 18>>, <<255, 128>>}

\* The RAM with byte value at bus address a, if a is a RAM address.
Poke(mem, a, value) ==
    IF a % 65536 < PPU_START
    THEN ArrPut(mem, And(a % 65536, RAM_SIZE - 1), value)
    ELSE mem

InitFetch ==
    /\ cartridge \in BusCartridges
    /\ \E pc \in FetchPcs, op \in Byte, operands \in FetchOperands :
        /\ registers = [RegistersNew EXCEPT !.pc = pc]
        /\ ram = Poke(Poke(Poke(Zeroes, pc, op), pc + 1, operands[1]),
                      pc + 2, operands[2])
        /\ drv = [stage |-> "ready", pc |-> pc, opcode |-> 0, reads |-> << >>,
                  operand |-> 0]
    /\ opcode8 = 238
    /\ opcode16 = 48879
    /\ ppu = PpuNew
    /\ bus = NoAccess
    /\ calls = << >>
    /\ panicked = FALSE
    /\ nops = 0

\* Cpu::tick up to and including `self.registers.pc = pc`.
TickFetch ==
    /\ drv.stage = "ready"
    /\ LET f == Fetch(registers, opcode8, opcode16, ram, ppu, cartridge) IN
        /\ registers' = [registers EXCEPT !.pc = f.pc]
        /\ opcode8' = f.opcode8
        /\ opcode16' = f.opcode16
        /\ ppu' = f.ppu
        /\ calls' = f.calls
        /\ panicked' = f.panic
        /\ drv' = [drv EXCEPT !.stage = "fetched", !.opcode = f.opcode,
                              !.reads = f.reads]
    /\ nops' = nops + 1
    /\ UNCHANGED <<ram, cartridge, bus>>

\* instruction.execute reading its operand field; OpTODO panics.
TickDecode ==
    /\ drv.stage = "fetched"
    /\ ~panicked
    /\ LET instr == Instruction(drv.opcode) IN
        /\ panicked' = (instr[1] = "TODO")
        /\ drv' = [drv EXCEPT !.stage = "decoded",
                              !.operand = CASE OperandField(instr) = 8 -> opcode8
                                            [] OperandField(instr) = 16 -> opcode16
                                            [] OTHER -> 0]
    /\ UNCHANGED <<ram, registers, opcode8, opcode16, ppu, cartridge, bus, calls, nops>>

NextFetch == TickFetch \/ TickDecode

SpecFetch == InitFetch /\ [][NextFetch]_vars

\* C5: a tick whose opcode byte at PC is op reads exactly the
\* INSTRUCTION_SIZES[op] bytes at PC, PC + 1, ... and has PC at PC + size mod
\* 2^16 when the instruction executes; a dispatch entry that reads the 8-bit
\* operand field has size 2 and finds the byte after the opcode there, one
\* that reads the 16-bit field has size 3 and finds the two bytes after the
\* opcode there, low byte first.
C5_FetchBySize ==
    drv.stage \in {"fetched", "decoded"} =>
        LET size == InstructionSize(drv.opcode)
            field == OperandField(Instruction(drv.opcode))
            lo == ReadRam((drv.pc + 1) % 65536)
            hi == ReadRam((drv.pc + 2) % 65536)
        IN  /\ drv.opcode = ReadRam(drv.pc)
            /\ drv.reads = [i \in 1 .. size |-> (drv.pc + i - 1) % 65536]
            /\ registers.pc = (drv.pc + size) % 65536
            /\ field = 8 => size = 2 /\ opcode8 = lo
            /\ field = 16 => size = 3 /\ opcode16 = lo + 256 * hi
            /\ drv.stage = "decoded" /\ field = 8 => drv.operand = lo
            /\ drv.stage = "decoded" /\ field = 16 => drv.operand = lo + 256 * hi

\* CPY absolute, fetched from the last byte of PRG-ROM with its operand in
\* the first two bytes of RAM, has executed with PC = 2.
C5_Witness ==
    /\ drv.stage = "decoded" /\ ~panicked
    /\ drv.pc = 65535 /\ drv.opcode = 204
    /\ drv.reads = <<65535, 0, 1>>
    /\ registers.pc = 2
    /\ drv.operand = 4660

-----------------------------------------------------------------------------
(* SpecPpuBus: the PPU address space.  Up to MaxPpuBusOps reads and writes *)
(* go through Ppu::read_ppu and Ppu::write_ppu, as the $2007 port and the  *)
(* renderer make them, at palette and nametable addresses.                 *)

MaxPpuBusOps == 2

\* The four aliased pairs, two plain palette entries, one beyond the first
\* 32, and a nametable byte.
PpuBusAddrs ==
    {16128, 16132, 16136, 16140, 16144, 16148, 16152, 16156,
     16129, 16145, 16160, 9152}
PpuBusValues == {0, 127, 229}

InitPpuBus ==
    /\ CpuNew
    /\ ppu = PpuNew
    /\ cartridge \in BusCartridges
    /\ bus = NoAccess
    /\ calls = << >>
    /\ drv = [stage |-> "ppubus", prev |-> NoAccess]
    /\ panicked = FALSE
    /\ nops = 0

PpuBusOthers == <<ram, registers, opcode8, opcode16, calls>>

\* self.write_ppu(cartridge, addr, value)
PpuBusWrite(addr, value) ==
    /\ ~panicked
    /\ nops < MaxPpuBusOps
    /\ LET w == PpuWritePpu(ppu, cartridge, addr, value) IN
        /\ ppu' = w.ppu
        /\ cartridge' = w.cart
        /\ panicked' = w.panic
    /\ bus' = [op |-> "write_ppu", addr |-> addr, value |-> value, result |-> 0]
    /\ drv' = [drv EXCEPT !.prev = bus]
    /\ nops' = nops + 1
    /\ UNCHANGED PpuBusOthers

\* self.read_ppu(cartridge, addr)
PpuBusRead(addr) ==
    /\ ~panicked
    /\ nops < MaxPpuBusOps
    /\ LET r == PpuReadPpu(ppu, cartridge, addr) IN
        /\ panicked' = (r = PANIC)
        /\ bus' = [op |-> "read_ppu", addr |-> addr, value |-> 0, result |-> r]
    /\ drv' = [drv EXCEPT !.prev = bus]
    /\ nops' = nops + 1
    /\ UNCHANGED <<ppu, cartridge, PpuBusOthers>>

NextPpuBus ==
    \/ \E addr \in PpuBusAddrs, value \in PpuBusValues : PpuBusWrite(addr, value)
    \/ \E addr \in PpuBusAddrs : PpuBusRead(addr)

SpecPpuBus == InitPpuBus /\ [][NextPpuBus]_vars

\* The other address of an aliased pair; the address itself elsewhere.
PalettePartner(addr) ==
    CASE addr \in {16144, 16148, 16152, 16156} -> addr - 16
      [] addr \in {16128, 16132, 16136, 16140} -> addr + 16
      [] OTHER -> addr

\* C6: after a PPU-bus write of v to one address of a pair ($3F10,$3F00),
\* ($3F14,$3F04), ($3F18,$3F08), ($3F1C,$3F0C), a PPU-bus read of the other
\* address of the pair returns v & 0x3F, in both directions; every palette
\* write stores only the low 6 bits, so a read of the written address
\* returns v & 0x3F and no palette entry ever exceeds $3F.
C6_PaletteAliasing ==
    /\ \A i \in DOMAIN ppu.palette : ppu.palette[i] <= 63
    /\ /\ bus.op = "read_ppu"
       /\ drv.prev.op = "write_ppu"
       /\ drv.prev.addr >= 16128
       /\ bus.addr \in {drv.prev.addr, PalettePartner(drv.prev.addr)}
       => bus.result = drv.prev.value % 64

\* $E5 was written to $3F10 and $3F00 then read as $25.
C6_Witness ==
    /\ drv.prev.op = "write_ppu" /\ drv.prev.addr = 16144 /\ drv.prev.value = 229
    /\ bus.op = "read_ppu" /\ bus.addr = 16128 /\ bus.result = 37

-----------------------------------------------------------------------------
(* SpecMmc1: the MMC1 load register.  The CPU makes up to MaxMmc1Ops       *)
(* writes to the four register ranges of a freshly built MMC1 cartridge.   *)
(* The driver notes the bits written since the last bit-7-set write, five  *)
(* at a time, and the last five consecutive bit-7-clear writes with the    *)
(* registers each one found.                                               *)

MaxMmc1Ops == 8

Mmc1Addrs == {32768, 40960, 49152, 57344}
Mmc1Values == {0, 127, 129}

\* The registers of the mapper.
Mmc1Registers(c) ==
    [control |-> c.control, chr_bank0 |-> c.chr_bank0,
     chr_bank1 |-> c.chr_bank1, prg_bank |-> c.prg_bank]

InitMmc1 ==
    /\ CpuNew
    /\ ppu = PpuNew
    /\ cartridge = Mmc1New(256 * 1024, 128 * 1024, 8 * 1024)
    /\ bus = NoAccess
    /\ calls = << >>
    /\ drv = [stage |-> "mmc1", bits |-> << >>, run |-> << >>, last |-> 0,
              aborted |-> FALSE]
    /\ panicked = FALSE
    /\ nops = 0

\* What the driver notes of a write to the load register.
Mmc1Note(d, c, addr, value) ==
    IF value >= 128 THEN
        [d EXCEPT !.bits = << >>, !.run = << >>,
                  !.aborted = @ \/ Len(d.bits) > 0]
    ELSE
        LET entry == [bit |-> value % 2,
                      regs |-> Mmc1Registers(c), shifter |-> c.shifter]
            all == Append(d.run, entry)
        IN  [d EXCEPT !.bits = IF Len(@) = 4 THEN << >> ELSE Append(@, value % 2),
                      !.run = IF Len(all) > 5 THEN Tail(all) ELSE all,
                      !.last = addr]

\* cpu.write_memory(hw, addr, value) with addr in cartridge space
Mmc1Write(addr, value) ==
    /\ ~panicked
    /\ nops < MaxMmc1Ops
    /\ LET w == WriteMemory(ram, ppu, cartridge, addr, value) IN
        /\ ram' = w.ram
        /\ ppu' = w.ppu
        /\ cartridge' = w.cart
        /\ calls' = w.calls
        /\ panicked' = w.panic
    /\ bus' = [op |-> "write", addr |-> addr, value |-> value, result |-> 0]
    /\ drv' = Mmc1Note(drv, cartridge, addr, value)
    /\ nops' = nops + 1
    /\ UNCHANGED <<registers, opcode8, opcode16>>

NextMmc1 == \E addr \in Mmc1Addrs, value \in Mmc1Values : Mmc1Write(addr, value)

SpecMmc1 == InitMmc1 /\ [][NextMmc1]_vars

\* The register a commit at addr goes to.
Mmc1Target(addr) ==
    IF addr < 40960 THEN "control"
    ELSE IF addr < 49152 THEN "chr_bank0"
    ELSE IF addr < 57344 THEN "chr_bank1"
    ELSE "prg_bank"

\* The value of a sequence of bits, first bit least significant.
RECURSIVE BitsValue(_)
BitsValue(bits) ==
    IF bits = << >> THEN 0 ELSE Head(bits) + 2 * BitsValue(Tail(bits))

\* The five writes of the run have committed their bits to the register the
\* fifth address selects and to no other.
Mmc1RunCommitted ==
    Mmc1Registers(cartridge) =
        [drv.run[1].regs EXCEPT
            ![Mmc1Target(drv.last)] =
                BitsValue([i \in 1 .. 5 |-> drv.run[i].bit])]

\* C7: five consecutive CPU writes to $8000-$FFFF with bit 7 clear, the
\* first of which finds the shifter in its reset state 0b00100000, commit
\* the 5-bit value assembled from bit 0 of the five writes, first write
\* least significant, to exactly one of control, CHR bank 0, CHR bank 1 and
\* PRG bank, chosen by the address of the fifth write alone; the other three
\* registers keep the values the first write found.
C7_SerialLoadFromReset ==
    Len(drv.run) = 5 /\ drv.run[1].shifter = 32 => Mmc1RunCommitted

\* C7 as stated: the same of five consecutive bit-7-clear writes starting
\* from any shifter state.
C7_SerialLoadFromAnyState ==
    Len(drv.run) = 5 => Mmc1RunCommitted

\* Five writes from the reset state, the fifth to $C000, have set CHR bank 1
\* to 0b10011.
C7_Witness ==
    /\ Len(drv.run) = 5 /\ drv.run[1].shifter = 32
    /\ drv.last = 49152
    /\ cartridge.chr_bank1 = 19
    /\ cartridge.control = 12 /\ cartridge.chr_bank0 = 0 /\ cartridge.prg_bank = 0

\* C8: a write to $8000-$FFFF with bit 7 set resets the shifter to
\* 0b00100000, sets bits 2 and 3 of control and changes nothing else of the
\* cartridge; counting bit-7-clear writes from construction, from the last
\* bit-7-set write or from the last commit, the first four change no
\* register and the fifth commits the five bits written since then.
C8_ResetAndFifthWrite ==
    [][bus'.op = "write" /\ bus'.addr >= 32768 =>
        IF bus'.value >= 128 THEN
            /\ cartridge'.shifter = 32
            /\ cartridge'.control % 4 = cartridge.control % 4
            /\ (cartridge'.control \div 4) % 4 = 3
            /\ cartridge'.control \div 16 = cartridge.control \div 16
            /\ cartridge' = [cartridge EXCEPT !.shifter = cartridge'.shifter,
                                              !.control = cartridge'.control]
        ELSE IF Len(drv.bits) < 4 THEN
            Mmc1Registers(cartridge') = Mmc1Registers(cartridge)
        ELSE
            /\ Mmc1Registers(cartridge') =
                [Mmc1Registers(cartridge) EXCEPT
                    ![Mmc1Target(bus'.addr)] =
                        BitsValue(Append(drv.bits, bus'.value % 2))]
            /\ cartridge'.shifter = 32]_vars

\* A bit-7-set write aborted a partial load, and the five writes after it
\* set the PRG bank to 0b10101.
C8_Witness ==
    /\ drv.aborted /\ drv.bits = << >> /\ Len(drv.run) = 5
    /\ cartridge.prg_bank = 21 /\ cartridge.shifter = 32
    /\ cartridge.control = 12

-----------------------------------------------------------------------------
(* SpecNRom: the CPU side of an NROM cartridge.  Cartridges with 16 KiB    *)
(* and 32 KiB of PRG-ROM and 0, 2 and 8 KiB of PRG-RAM take up to          *)
(* MaxNRomOps CPU reads and writes in cartridge space.                     *)

MaxNRomOps == 2

NRomAddrs == {16416, 24576, 32767, 32768, 32769, 49151, 49152, 49153, 65535}
NRomValues == {0, 165}

InitNRom ==
    /\ CpuNew
    /\ ppu = PpuNew
    /\ \E prg_len \in {16 * 1024, 32 * 1024}, ram_size \in {0, 2048, 8192} :
        cartridge = NRomNew(prg_len, 8 * 1024, ram_size, "VerticalMirroring")
    /\ bus = NoAccess
    /\ calls = << >>
    /\ drv = [stage |-> "nrom", prev |-> NoAccess]
    /\ panicked = FALSE
    /\ nops = 0

\* cpu.write_memory(hw, addr, value) with addr in cartridge space
NRomWrite(addr, value) ==
    /\ ~panicked
    /\ nops < MaxNRomOps
    /\ LET w == WriteMemory(ram, ppu, cartridge, addr, value) IN
        /\ ram' = w.ram
        /\ ppu' = w.ppu
        /\ cartridge' = w.cart
        /\ calls' = w.calls
        /\ panicked' = w.panic
    /\ bus' = [op |-> "write", addr |-> addr, value |-> value, result |-> 0]
    /\ drv' = [drv EXCEPT !.prev = bus]
    /\ nops' = nops + 1
    /\ UNCHANGED <<registers, opcode8, opcode16>>

\* cpu.read_memory(hw, addr) with addr in cartridge space
NRomRead(addr) ==
    /\ ~panicked
    /\ nops < MaxNRomOps
    /\ LET r == ReadMemory(ram, ppu, cartridge, addr) IN
        /\ ppu' = r.ppu
        /\ calls' = r.calls
        /\ panicked' = (r.result = PANIC)
        /\ bus' = [op |-> "read", addr |-> addr, value |-> 0, result |-> r.result]
    /\ drv' = [drv EXCEPT !.prev = bus]
    /\ nops' = nops + 1
    /\ UNCHANGED <<ram, cartridge, registers, opcode8, opcode16>>

NextNRom ==
    \/ \E addr \in NRomAddrs, value \in NRomValues : NRomWrite(addr, value)
    \/ \E addr \in NRomAddrs : NRomRead(addr)

SpecNRom == InitNRom /\ [][NextNRom]_vars

\* Offsets into the lower 16 KiB window $8000-$BFFF.
NRomProbe == {0, 1, 4660, 8192, 16383}

\* C9: in every reachable state of an NROM cartridge with 16 KiB of PRG-ROM,
\* read_cpu(a) = read_cpu(a + $4000) = prg_rom[a - $8000] for a in
\* $8000-$BFFF; with 32 KiB, read_cpu(a) = prg_rom[a - $8000] for a in
\* $8000-$FFFF, the upper half showing the upper 16 KiB.  CPU writes change
\* neither, and a CPU read of such an address returns that byte.
C9_NRomPrgMirror ==
    /\ \A o \in NRomProbe :
        /\ NRomReadCpu(cartridge, 32768 + o) = PrgRom(cartridge.prg_len, o)
        /\ NRomReadCpu(cartridge, 49152 + o) =
            IF cartridge.prg_len = 16384
            THEN NRomReadCpu(cartridge, 32768 + o)
            ELSE PrgRom(cartridge.prg_len, 16384 + o)
    /\ bus.op = "read" /\ bus.addr >= 32768 =>
        bus.result = PrgRom(cartridge.prg_len,
                            IF cartridge.prg_len = 16384
                            THEN (bus.addr - 32768) % 16384
                            ELSE bus.addr - 32768)

\* After a write to $8001, a read of $C001 on a 16 KiB cartridge returned
\* prg_rom[1].
C9_Witness ==
    /\ cartridge.prg_len = 16384
    /\ drv.prev.op = "write" /\ drv.prev.addr = 32769 /\ drv.prev.value = 165
    /\ bus.op = "read" /\ bus.addr = 49153 /\ bus.result = PrgRom(16384, 1)

-----------------------------------------------------------------------------
(* SpecMmc1Banks: MMC1 PRG-ROM address resolution as a function of the     *)
(* control and PRG-bank registers.  The registers hold any two 5-bit       *)
(* values, as serial loads leave them, and the CPU reads PRG-ROM.          *)

Mmc1BankAddrs == {32768, 32769, 40000, 49151, 49152, 49153, 60000, 65535}

InitMmc1Banks ==
    /\ CpuNew
    /\ ppu = PpuNew
    /\ \E control \in 0 .. 31, prg_bank \in 0 .. 31 :
        cartridge = [Mmc1New(256 * 1024, 128 * 1024, 8 * 1024)
                        EXCEPT !.control = control, !.prg_bank = prg_bank]
    /\ bus = NoAccess
    /\ calls = << >>
    /\ drv = [stage |-> "mmc1banks"]
    /\ panicked = FALSE
    /\ nops = 0

\* cpu.read_memory(hw, addr) with addr in $8000-$FFFF
Mmc1BankRead(addr) ==
    /\ ~panicked
    /\ LET r == ReadMemory(ram, ppu, cartridge, addr) IN
        /\ ppu' = r.ppu
        /\ calls' = r.calls
        /\ panicked' = (r.result = PANIC)
        /\ bus' = [op |-> "read", addr |-> addr, value |-> 0, result |-> r.result]
    /\ UNCHANGED <<ram, cartridge, registers, opcode8, opcode16, drv, nops>>

NextMmc1Banks == \E addr \in Mmc1BankAddrs : Mmc1BankRead(addr)

SpecMmc1Banks == InitMmc1Banks /\ [][NextMmc1Banks]_vars

\* The 16 KiB bank a read of addr comes from, by the rule of the PRG mode.
Mmc1ExpectedBank(control, k, addr) ==
    LET mode == (control \div 4) % 4 IN
    CASE mode = 3 -> IF addr < 49152 THEN k ELSE 15
      [] mode = 2 -> IF addr < 49152 THEN 0 ELSE k
      [] OTHER -> IF addr < 49152 THEN 2 * (k \div 2) ELSE 2 * (k \div 2) + 1

\* C10: with PRG-bank value k in 0..15 (bits 0-3 of the PRG-bank register),
\* a read of $8000-$FFFF returns the byte at the same 16 KiB offset of the
\* bank the mode in control bits 2-3 selects: mode 3, bank k at $8000 and
\* bank 15 at $C000; mode 2, bank 0 at $8000 and bank k at $C000; modes 0
\* and 1, banks 2*(k/2) at $8000 and 2*(k/2)+1 at $C000.
C10_Mmc1PrgBanks ==
    bus.op = "read" =>
        bus.result =
            PrgRom(262144,
                   16384 * Mmc1ExpectedBank(cartridge.control,
                                            cartridge.prg_bank % 16, bus.addr)
                   + (bus.addr % 16384))

\* In mode 3 with PRG bank 5 a read of $C001 returned byte 1 of bank 15.
C10_Witness ==
    /\ (cartridge.control \div 4) % 4 = 3 /\ cartridge.prg_bank = 5
    /\ bus.op = "read" /\ bus.addr = 49153
    /\ bus.result = PrgRom(262144, 15 * 16384 + 1)
    /\ bus.result # PrgRom(262144, 5 * 16384 + 1)

-----------------------------------------------------------------------------
(* SpecMmc1Ram: the PRG-RAM of an MMC1 cartridge.  The cartridge starts    *)
(* between two serial loads, with PRG-RAM enabled or disabled and one      *)
(* byte stored in it or none; the CPU then makes up to MaxMmc1RamOps       *)
(* reads and writes of PRG-RAM and writes of the PRG-bank register.  The   *)
(* driver keeps the bytes written while bit 4 of the PRG bank was clear.   *)

MaxMmc1RamOps == 7

Mmc1RamAddrs == {24577, 32767}
Mmc1RamValues == {122, 51}

InitMmc1Ram ==
    /\ CpuNew
    /\ ppu = PpuNew
    /\ \E prg_bank \in {0, 16}, stored \in {0, 122} :
        /\ cartridge = [Mmc1New(256 * 1024, 128 * 1024, 8 * 1024)
                            EXCEPT !.prg_bank = prg_bank,
                                   !.ram = ArrPut(Zeroes, 1, stored)]
        /\ drv = [stage |-> "mmc1ram", shadow |-> ArrPut(Zeroes, 1, stored),
                  dropped |-> FALSE]
    /\ bus = NoAccess
    /\ calls = << >>
    /\ panicked = FALSE
    /\ nops = 0

\* cpu.write_memory(hw, addr, value) with addr in PRG-RAM or at $E000
Mmc1RamWrite(addr, value) ==
    /\ ~panicked
    /\ nops < MaxMmc1RamOps
    /\ LET w == WriteMemory(ram, ppu, cartridge, addr, value) IN
        /\ ram' = w.ram
        /\ ppu' = w.ppu
        /\ cartridge' = w.cart
        /\ calls' = w.calls
        /\ panicked' = w.panic
    /\ bus' = [op |-> "write", addr |-> addr, value |-> value, result |-> 0]
    /\ drv' = IF addr >= 32768 THEN drv
              ELSE IF Bit(cartridge.prg_bank, 4)
              THEN [drv EXCEPT !.dropped = TRUE]
              ELSE [drv EXCEPT !.shadow = ArrPut(@, addr - 24576, value)]
    /\ nops' = nops + 1
    /\ UNCHANGED <<registers, opcode8, opcode16>>

\* cpu.read_memory(hw, addr) with addr in PRG-RAM
Mmc1RamRead(addr) ==
    /\ ~panicked
    /\ nops < MaxMmc1RamOps
    /\ LET r == ReadMemory(ram, ppu, cartridge, addr) IN
        /\ ppu' = r.ppu
        /\ calls' = r.calls
        /\ panicked' = (r.result = PANIC)
        /\ bus' = [op |-> "read", addr |-> addr, value |-> 0, result |-> r.result]
    /\ nops' = nops + 1
    /\ UNCHANGED <<ram, cartridge, registers, opcode8, opcode16, drv>>

NextMmc1Ram ==
    \/ \E addr \in Mmc1RamAddrs \cup {57344}, value \in Mmc1RamValues :
        Mmc1RamWrite(addr, value)
    \/ \E addr \in Mmc1RamAddrs : Mmc1RamRead(addr)

SpecMmc1Ram == InitMmc1Ram /\ [][NextMmc1Ram]_vars

\* C11: while bit 4 of the PRG-bank register is 1, every read of
\* $6000-$7FFF returns 0 and no write to $6000-$7FFF changes the RAM
\* contents; while it is 0, after a serial load cleared it again, every RAM
\* address reads the value last written to it while RAM was enabled.
C11_PrgRamGate ==
    /\ cartridge.ram = drv.shadow
    /\ \A addr \in Mmc1RamAddrs :
        Mmc1ReadCpu(cartridge, addr) =
            IF Bit(cartridge.prg_bank, 4) THEN 0
            ELSE ArrGet(drv.shadow, 8192, addr - 24576)
    /\ bus.op = "read" =>
        bus.result = IF Bit(cartridge.prg_bank, 4) THEN 0
                     ELSE ArrGet(drv.shadow, 8192, bus.addr - 24576)

\* With $7A stored at $6001 and RAM disabled, a write of $33 to $6001 was
\* dropped; five writes to $E000 cleared the PRG bank, and $6001 read $7A.
C11_Witness ==
    /\ drv.dropped /\ cartridge.prg_bank = 0 /\ nops = 7
    /\ bus.op = "read" /\ bus.addr = 24577 /\ bus.result = 122

-----------------------------------------------------------------------------
(* SpecNametable: the nametable area on the cartridge's PPU bus.  NROM     *)
(* cartridges of both mirror modes and an MMC1 cartridge take up to        *)
(* MaxNametableOps read_ppu and write_ppu calls in $2000-$3EFF.            *)

MaxNametableOps == 2

\* $2002 and $3403 with their images under bits 11 and 12, their
\* neighbours under bit 10, and the last byte of the area.
NametableAddrs ==
    {8194, 10242, 12290, 14338, 9218, 13315, 9219, 11267, 15363, 8195, 16127}
NametableValues == {2, 3}

InitNametable ==
    /\ CpuNew
    /\ ppu = PpuNew
    /\ cartridge \in
        {NRomNew(16 * 1024, 8 * 1024, 2048, "HorizontalMirroring"),
         NRomNew(32 * 1024, 8 * 1024, 0, "VerticalMirroring"),
         Mmc1New(256 * 1024, 128 * 1024, 8 * 1024)}
    /\ bus = NoAccess
    /\ calls = << >>
    /\ drv = [stage |-> "nametable", prev |-> NoAccess]
    /\ panicked = FALSE
    /\ nops = 0

\* cartridge.write_ppu(addr, value)
NametableWrite(addr, value) ==
    /\ nops < MaxNametableOps
    /\ cartridge' = CartWritePpu(cartridge, addr, value)
    /\ bus' = [op |-> "write_ppu", addr |-> addr, value |-> value, result |-> 0]
    /\ drv' = [drv EXCEPT !.prev = bus]
    /\ nops' = nops + 1
    /\ UNCHANGED <<ram, registers, opcode8, opcode16, ppu, calls, panicked>>

\* cartridge.read_ppu(addr)
NametableRead(addr) ==
    /\ nops < MaxNametableOps
    /\ bus' = [op |-> "read_ppu", addr |-> addr, value |-> 0,
               result |-> CartReadPpu(cartridge, addr)]
    /\ drv' = [drv EXCEPT !.prev = bus]
    /\ nops' = nops + 1
    /\ UNCHANGED <<ram, registers, opcode8, opcode16, ppu, cartridge, calls, panicked>>

NextNametable ==
    \/ \E addr \in NametableAddrs, value \in NametableValues :
        NametableWrite(addr, value)
    \/ \E addr \in NametableAddrs : NametableRead(addr)

SpecNametable == InitNametable /\ [][NextNametable]_vars

\* Two addresses of $2000-$3EFF that differ at most in bits 11 and 12.
SameNametableCell(a, b) == a % 2048 = b % 2048

\* C12: on the PPU bus of an NROM or MMC1 cartridge, a value written at an
\* address of $2000-$3EFF is read back at every address of the range that
\* differs from it only in bit 11 or bit 12, and the write leaves every
\* other address (one that differs in bit 10 or below) reading what it read
\* before; a read changes nothing and returns the byte of its cell.
C12_NametableLayout ==
    [][/\ bus'.op = "write_ppu" =>
            \A a \in NametableAddrs :
                CartReadPpu(cartridge', a) =
                    IF SameNametableCell(a, bus'.addr) THEN bus'.value
                    ELSE CartReadPpu(cartridge, a)
       /\ bus'.op = "read_ppu" =>
            /\ cartridge' = cartridge
            /\ bus'.result = CartReadPpu(cartridge, bus'.addr)
            /\ /\ bus.op = "write_ppu"
               /\ SameNametableCell(bus.addr, bus'.addr)
               => bus'.result = bus.value]_vars

\* 2 was written to $2002 and read back at $3802, while $2402 still reads 0.
C12_Witness ==
    /\ drv.prev.op = "write_ppu" /\ drv.prev.addr = 8194 /\ drv.prev.value = 2
    /\ bus.op = "read_ppu" /\ bus.addr = 14338 /\ bus.result = 2
    /\ CartReadPpu(cartridge, 9218) = 0
    /\ CartReadPpu(cartridge, 10242) = 2

\* The 1 KiB nametable slot (0-3) of a PPU address in $2000-$3EFF.
NametableSlot(a) == ((a - 8192) % 4096) \div 1024

\* The two addresses fall on one cell under the mirror mode: the horizontal
\* mode pairs slots 0 with 2 and 1 with 3 ($2002 with $2802), the vertical
\* mode the complementary 0 with 1 and 2 with 3.
MirroredCell(mirror_mode, a, b) ==
    /\ a % 1024 = b % 1024
    /\ IF mirror_mode = "HorizontalMirroring"
       THEN NametableSlot(a) % 2 = NametableSlot(b) % 2
       ELSE NametableSlot(a) \div 2 = NametableSlot(b) \div 2

\* C23: an NROM cartridge mirrors its nametables by the mirror mode it was
\* constructed with: a write is read back at exactly the addresses the mode
\* pairs with the written one, $2002 with $2802 and $2403 with $2C03 in the
\* horizontal mode and the complementary pairing in the vertical mode.
C23_MirrorModeFollowed ==
    [][(cartridge.mapper = 0 /\ bus'.op = "write_ppu") =>
            \A a \in NametableAddrs :
                CartReadPpu(cartridge', a) =
                    IF MirroredCell(cartridge.mirror_mode, a, bus'.addr)
                    THEN bus'.value
                    ELSE CartReadPpu(cartridge, a)]_vars

-----------------------------------------------------------------------------
(* SpecVram: VRAM access through PPUADDR and PPUDATA.  After up to         *)
(* MaxVramPrelude other register accesses the CPU, finding the write       *)
(* toggle clear, points $2006 at an address, writes a byte through $2007,  *)
(* points $2006 at the address again and reads $2007.                      *)

MaxVramPrelude == 2

\* Nametable addresses, the first and the last included, and a mirror.
VramTargets == {8192, 9157, 12287, 12288, 16127}
VramBytes == {0, 167}
\* Register writes that change the increment, t and the write toggle.
VramPreludeWrites == {<<8192, 4>>, <<8192, 3>>, <<8197, 255>>, <<8198, 63>>}

InitVram ==
    /\ CpuNew
    /\ ppu = PpuNew
    /\ cartridge \in BusCartridges
    /\ bus = NoAccess
    /\ calls = << >>
    /\ drv = [stage |-> "prelude", step |-> 0, target |-> 0, byte |-> 0]
    /\ panicked = FALSE
    /\ nops = 0

\* The CPU write of the model's state, as one more step of the driver.
VramCpuWrite(address, value, d) ==
    /\ LET w == WriteMemory(ram, ppu, cartridge, address, value) IN
        /\ ram' = w.ram
        /\ ppu' = w.ppu
        /\ cartridge' = w.cart
        /\ calls' = w.calls
        /\ panicked' = w.panic
    /\ bus' = [op |-> "write", addr |-> address, value |-> value, result |-> 0]
    /\ drv' = d
    /\ UNCHANGED <<registers, opcode8, opcode16>>

\* A register write before the sequence.
VramPrelude(access) ==
    /\ ~panicked
    /\ drv.stage = "prelude"
    /\ nops < MaxVramPrelude
    /\ nops' = nops + 1
    /\ VramCpuWrite(access[1], access[2], drv)

\* A read of $2002 before the sequence.
VramPreludeStatus ==
    /\ ~panicked
    /\ drv.stage = "prelude"
    /\ nops < MaxVramPrelude
    /\ nops' = nops + 1
    /\ LET r == ReadMemory(ram, ppu, cartridge, 8194) IN
        /\ ppu' = r.ppu
        /\ calls' = r.calls
        /\ panicked' = (r.result = PANIC)
        /\ bus' = [op |-> "read", addr |-> 8194, value |-> 0, result |-> r.result]
    /\ UNCHANGED <<ram, cartridge, registers, opcode8, opcode16, drv>>

\* write $2006 <- A >> 8, the first and the fourth step of the sequence
VramPointHigh(target, byte) ==
    /\ ~panicked
    /\ \/ /\ drv.stage = "prelude" /\ ~ppu.write_toggle
          /\ VramCpuWrite(8198, target \div 256,
                          [stage |-> "sequence", step |-> 1,
                           target |-> target, byte |-> byte])
       \/ /\ drv.stage = "sequence" /\ drv.step = 3
          /\ target = drv.target /\ byte = drv.byte
          /\ VramCpuWrite(8198, drv.target \div 256, [drv EXCEPT !.step = 4])
    /\ UNCHANGED nops

\* write $2006 <- A & 0xFF, the second and the fifth step
VramPointLow ==
    /\ ~panicked
    /\ drv.stage = "sequence" /\ drv.step \in {1, 4}
    /\ VramCpuWrite(8198, drv.target % 256, [drv EXCEPT !.step = @ + 1])
    /\ UNCHANGED nops

\* write $2007 <- d, the third step
VramStore ==
    /\ ~panicked
    /\ drv.stage = "sequence" /\ drv.step = 2
    /\ VramCpuWrite(8199, drv.byte, [drv EXCEPT !.step = 3])
    /\ UNCHANGED nops

\* read $2007, the sixth step
VramLoad ==
    /\ ~panicked
    /\ drv.stage = "sequence" /\ drv.step = 5
    /\ LET r == ReadMemory(ram, ppu, cartridge, 8199) IN
        /\ ppu' = r.ppu
        /\ calls' = r.calls
        /\ panicked' = (r.result = PANIC)
        /\ bus' = [op |-> "read", addr |-> 8199, value |-> 0, result |-> r.result]
    /\ drv' = [drv EXCEPT !.step = 6]
    /\ UNCHANGED <<ram, cartridge, registers, opcode8, opcode16, nops>>

NextVram ==
    \/ \E access \in VramPreludeWrites : VramPrelude(access)
    \/ VramPreludeStatus
    \/ \E target \in VramTargets, byte \in VramBytes : VramPointHigh(target, byte)
    \/ VramPointLow
    \/ VramStore
    \/ VramLoad

SpecVram == InitVram /\ [][NextVram]_vars

\* C13: started with the write toggle clear, the CPU sequence $2006 <- A>>8,
\* $2006 <- A&0xFF, $2007 <- d, $2006 <- A>>8, $2006 <- A&0xFF, read $2007,
\* for A in $2000-$3EFF, returns d from the read, completes without a panic
\* and leaves the write toggle clear; the byte is in VRAM at A from the third
\* step on.
C13_VramRoundTrip ==
    /\ drv.stage = "sequence" => ~panicked
    /\ drv.stage = "sequence" /\ drv.step >= 3 =>
        PpuReadPpu(ppu, cartridge, drv.target) = drv.byte
    /\ drv.stage = "sequence" /\ drv.step = 6 =>
        /\ bus.op = "read" /\ bus.addr = 8199
        /\ bus.result = drv.byte
        /\ ~ppu.write_toggle

\* After two register writes that left the increment at 32, the sequence
\* for A = $3EFF and d = $A7 has read $A7.
C13_Witness ==
    /\ drv.stage = "sequence" /\ drv.step = 6
    /\ drv.target = 16127 /\ drv.byte = 167
    /\ ppu.increment_mode /\ nops = 2
    /\ bus.result = 167 /\ ~ppu.write_toggle

-----------------------------------------------------------------------------
(* SpecReset: Cpu::jump_to_start, the reset of this CPU, applied to a CPU  *)
(* that has run: any stack pointer, flags and program counter.             *)

ResetStackPointers == {253, 250, 0}
ResetPcs == {0, 33059}

InitReset ==
    /\ ram = Zeroes /\ opcode8 = 0 /\ opcode16 = 0
    /\ \E s \in ResetStackPointers, p \in StatusFlags, pc \in ResetPcs :
        registers = [RegistersNew EXCEPT !.s = s, !.p = p, !.pc = pc]
    /\ ppu = PpuNew
    /\ cartridge \in BusCartridges
    /\ bus = NoAccess
    /\ calls = << >>
    /\ drv = [stage |-> "running", fresh |-> registers = RegistersNew]
    /\ panicked = FALSE
    /\ nops = 0

\* cpu.jump_to_start(&mut hardware)
Reset ==
    /\ drv.stage = "running"
    /\ LET j == JumpToStart(registers, ram, ppu, cartridge) IN
        /\ registers' = j.registers
        /\ ppu' = j.ppu
        /\ calls' = j.calls
        /\ panicked' = j.panic
    /\ drv' = [drv EXCEPT !.stage = "reset"]
    /\ nops' = nops + 1
    /\ UNCHANGED <<ram, opcode8, opcode16, cartridge, bus>>

NextReset == Reset

SpecReset == InitReset /\ [][NextReset]_vars

\* C14: after a reset, from whatever state the CPU was in, PC holds the
\* little-endian vector at $FFFC/$FFFD, S is $FD and the status is $34:
\* interrupt-disable set, the other five flags clear.
C14_ResetFromAnyState ==
    drv.stage = "reset" =>
        /\ registers.pc = ReadRam(65532) + 256 * ReadRam(65533)
        /\ registers.s = 253
        /\ StatusValue(registers.p, TRUE) = 52

-----------------------------------------------------------------------------
(* SpecInterrupt: interrupt service.  The CPU, with any flags and a stack  *)
(* pointer that may wrap, ticks on a BRK or a NOP in RAM, or is handed a   *)
(* hardware interrupt through Cpu::jump_to_interrupt(hw, false).           *)

MaxInterruptOps == 2
InterruptPcs == {16, 255, 4862}
InterruptOpcodes == {0, 234}
InterruptStackPointers == {253, 2, 1, 0}

InitInterrupt ==
    /\ opcode8 = 0 /\ opcode16 = 0
    /\ \E pc \in InterruptPcs, op \in InterruptOpcodes,
          s \in InterruptStackPointers, p \in StatusFlags :
        /\ registers = [RegistersNew EXCEPT !.s = s, !.p = p, !.pc = pc]
        /\ ram = Poke(Zeroes, pc, op)
    /\ ppu = PpuNew
    /\ cartridge \in BusCartridges
    /\ bus = NoAccess
    /\ calls = << >>
    /\ drv = [cause |-> "none", pc |-> 0, s |-> 0, p |-> registers.p]
    /\ panicked = FALSE
    /\ nops = 0

\* cpu.tick(&mut hardware, ..)
InterruptTick ==
    /\ ~panicked
    /\ nops < MaxInterruptOps
    /\ TickModelled(registers, ram, ppu, cartridge)
    /\ \E t \in {CpuTick(registers, opcode8, opcode16, ram, ppu, cartridge)} :
        /\ registers' = t.registers
        /\ opcode8' = t.opcode8
        /\ opcode16' = t.opcode16
        /\ ram' = t.ram
        /\ ppu' = t.ppu
        /\ cartridge' = t.cart
        /\ calls' = t.calls
        /\ panicked' = t.panic
        /\ drv' = [cause |-> IF Instruction(t.opcode)[1] = "BRK" THEN "brk" ELSE "none",
                   pc |-> registers.pc, s |-> registers.s, p |-> registers.p]
    /\ nops' = nops + 1
    /\ UNCHANGED bus

\* cpu.jump_to_interrupt(&mut hardware, false)
InterruptHardware ==
    /\ ~panicked
    /\ nops < MaxInterruptOps
    /\ \E j \in {JumpToInterrupt(registers, ram, ppu, cartridge, FALSE)} :
        /\ registers' = j.registers
        /\ ram' = j.ram
        /\ ppu' = j.ppu
        /\ cartridge' = j.cart
        /\ calls' = j.calls
        /\ panicked' = j.panic
    /\ drv' = [cause |-> "hardware", pc |-> registers.pc, s |-> registers.s,
               p |-> registers.p]
    /\ nops' = nops + 1
    /\ UNCHANGED <<opcode8, opcode16, bus>>

NextInterrupt == InterruptTick \/ InterruptHardware

SpecInterrupt == InitInterrupt /\ [][NextInterrupt]_vars

\* C15: after a tick on a BRK fetched at P with stack pointer s, $0100+s
\* holds the high byte of P+2, $0100+((s-1) mod 256) its low byte and
\* $0100+((s-2) mod 256) the packed status; S is (s-3) mod 256, I is set, the
\* other flags are as before and PC is the little-endian vector at
\* $FFFE/$FFFF.  The pushed status has the six flags as they were before I was
\* set, bit 5 set, and bit 4 set for BRK and clear when jump_to_interrupt was
\* entered for a hardware interrupt (which pushes the PC it found).
C15_InterruptService ==
    drv.cause \in {"brk", "hardware"} =>
        LET ret == IF drv.cause = "brk" THEN (drv.pc + 2) % 65536 ELSE drv.pc
            pushed == ReadRam(STACK_START + ((drv.s + 254) % 256))
        IN  /\ ~panicked
            /\ ReadRam(STACK_START + drv.s) = ret \div 256
            /\ ReadRam(STACK_START + ((drv.s + 255) % 256)) = ret % 256
            /\ Bit(pushed, 0) = drv.p.carry
            /\ Bit(pushed, 1) = drv.p.zero
            /\ Bit(pushed, 2) = drv.p.interrupt
            /\ Bit(pushed, 3) = drv.p.decimal
            /\ Bit(pushed, 4) = (drv.cause = "brk")
            /\ Bit(pushed, 5)
            /\ Bit(pushed, 6) = drv.p.overflow
            /\ Bit(pushed, 7) = drv.p.negative
            /\ registers.s = (drv.s + 253) % 256
            /\ registers.p = [drv.p EXCEPT !.interrupt = TRUE]
            /\ registers.pc = ReadRam(65534) + 256 * ReadRam(65535)

\* A BRK served with the stack pointer wrapping, I clear and carry set
\* before, the return address crossing a page.
C15_Witness ==
    /\ drv.cause = "brk"
    /\ drv.s = 1 /\ registers.s = 254
    /\ drv.pc = 4862
    /\ ~drv.p.interrupt /\ drv.p.carry
    /\ ReadRam(STACK_START + 255) = 49

-----------------------------------------------------------------------------
(* SpecFrame: the PPU ticking from power-on, frame after frame, on the     *)
(* cartridge and palette as loaded, the CPU reading $2002 in between; the  *)
(* driver keeps the set_pixel calls of the last tick and whether the       *)
(* pre-render line has cleared the flags.                                  *)

InitFrame ==
    /\ CpuNew
    /\ ppu = PpuNew
    /\ cartridge \in BusCartridges
    /\ bus = NoAccess
    /\ calls = << >>
    /\ drv = [pixels |-> << >>, cleared |-> FALSE]
    /\ panicked = FALSE
    /\ nops = 0

\* ppu.tick(&mut cartridge, &mut output)
FrameTick ==
    /\ ~panicked
    /\ LET t == PpuTick(ppu, cartridge) IN
        /\ ppu' = t.ppu
        /\ panicked' = t.panic
        /\ drv' = [pixels |-> t.pixels,
                   cleared |-> drv.cleared
                               \/ (ppu.current_scanline = 261 /\ ppu.current_cycle = 1)]
    /\ calls' = << >>
    /\ UNCHANGED <<ram, registers, opcode8, opcode16, cartridge, bus, nops>>

\* A CPU read of $2002 between two ticks.
FrameStatusRead ==
    /\ ~panicked
    /\ LET r == ReadMemory(ram, ppu, cartridge, 8194) IN
        /\ ppu' = r.ppu
        /\ calls' = r.calls
        /\ panicked' = (r.result = PANIC)
    /\ UNCHANGED <<ram, registers, opcode8, opcode16, cartridge, bus, drv, nops>>

NextFrame == FrameTick \/ FrameStatusRead

SpecFrame == InitFrame /\ [][NextFrame]_vars

InVblankWindow ==
    \/ ppu.current_scanline = 241 /\ ppu.current_cycle >= 2
    \/ ppu.current_scanline \in 242 .. 260
    \/ ppu.current_scanline = 261 /\ ppu.current_cycle <= 1

\* The step is a PPU tick executed at (scanline, cycle).
TickAt(scanline, cycle) ==
    /\ ppu.current_scanline = scanline /\ ppu.current_cycle = cycle
    /\ <<ppu'.current_scanline, ppu'.current_cycle>>
            # <<ppu.current_scanline, ppu.current_cycle>>

\* C17, as stated: in every reachable state vblank is true exactly when the
\* PPU position is after (241, 1) and at or before (261, 1).
C17_VblankWindowAlways == ppu.vblank <=> InVblankWindow

\* C17: the tick at (241, 1) sets vblank, the tick at (261, 1) clears it,
\* and no other step changes it; so once the first pre-render tick at
\* (261, 1) has run, vblank is true exactly when the position is after
\* (241, 1) and at or before (261, 1), and before that tick, from power-on,
\* it is false; after a tick at (261, 1) vblank, sprite-0-hit and
\* sprite-overflow are all false.
C17_VblankWindow ==
    /\ [][ /\ TickAt(241, 1) => ppu'.vblank
           /\ TickAt(261, 1) =>
                ~ppu'.vblank /\ ~ppu'.sprite_0_hit /\ ~ppu'.sprite_overflow
           /\ ppu'.vblank # ppu.vblank => TickAt(241, 1) \/ TickAt(261, 1) ]_vars
    /\ [](IF drv.cleared THEN ppu.vblank <=> InVblankWindow ELSE ~ppu.vblank)

\* The flag is up in the middle of the vertical blank of the second frame,
\* after a $2002 read has seen it.
C17_Witness ==
    /\ drv.cleared /\ ppu.vblank
    /\ ppu.current_scanline = 250 /\ ppu.current_cycle = 100
    /\ ppu.current_tilebitmap_low # 0
    /\ ppu.status_artifact = 128

\* C19: every set_pixel call of every tick has 0 <= x < 256 and
\* 0 <= y < 240.
C19_PixelsOnScreen ==
    \A k \in DOMAIN drv.pixels :
        /\ 0 <= drv.pixels[k].x /\ drv.pixels[k].x < 256
        /\ 0 <= drv.pixels[k].y /\ drv.pixels[k].y < 240

\* The tick at dot 257 of scanline 100 has drawn the eight pixels that end
\* in the bottom right corner.
C19_Witness ==
    /\ ppu.current_scanline = 100 /\ ppu.current_cycle = 258
    /\ Len(drv.pixels) = 8
    /\ drv.pixels[1].x = 248 /\ drv.pixels[8].x = 255 /\ drv.pixels[8].y = 239

-----------------------------------------------------------------------------
(* Unimplemented opcodes, under SpecFetch *)

\* The killer opcodes and the other unimplemented entries.
KillerOpcodes == {2, 18, 34, 50, 66, 82, 98, 114, 146, 178, 210, 242}
OtherUnimplementedOpcodes == {139, 147, 155, 156, 158, 159, 187}

\* C20: the dispatch entry of each killer opcode and of $8B, $93, $9B, $9C,
\* $9E, $9F, $BB, and of no other opcode byte, is the unimplemented one; a
\* tick that has dispatched on such a byte has panicked, and nothing is
\* executed after a panic.
C20_UnimplementedFatal ==
    /\ [](/\ \A op \in Byte :
                Instruction(op)[1] = "TODO"
                    <=> op \in KillerOpcodes \cup OtherUnimplementedOpcodes
          /\ (/\ drv.stage = "decoded"
              /\ drv.opcode \in KillerOpcodes \cup OtherUnimplementedOpcodes)
                => panicked)
    /\ [][~panicked]_vars

\* The tick on the killer opcode $02 has panicked at dispatch.
C20_Witness ==
    /\ drv.stage = "decoded" /\ drv.opcode = 2 /\ panicked
    /\ registers.pc = (drv.pc + 1) % 65536

-----------------------------------------------------------------------------
(* SpecMain: main's loop, cpu.tick followed by three ppu.tick, on a        *)
(* machine whose RAM holds the idle loop `JMP $0010` at $0010, with PC     *)
(* there and PPUCTRL written with NMI-enable set or clear.  The driver     *)
(* notes whether the last iteration raised vblank with NMI enabled.        *)

\* The address of the idle loop, in RAM.
MainLoopAddress == RAM_START + 16
MainCtrlValues == {0, 128}

InitMain ==
    /\ opcode8 = 0 /\ opcode16 = 0
    /\ registers = [RegistersNew EXCEPT !.pc = MainLoopAddress]
    /\ ram = Poke(Poke(Poke(Zeroes, MainLoopAddress, 76),
                       MainLoopAddress + 1, MainLoopAddress % 256),
                  MainLoopAddress + 2, MainLoopAddress \div 256)
    /\ cartridge = NRomNew(16 * 1024, 8 * 1024, 2048, "HorizontalMirroring")
    /\ \E ctrl \in MainCtrlValues :
        ppu = PpuWrite(PpuNew, cartridge, 8192, ctrl).ppu
    /\ bus = NoAccess
    /\ calls = << >>
    /\ drv = [raised |-> FALSE]
    /\ panicked = FALSE
    /\ nops = 0

\* One iteration of `for _ in 0..100 { cpu.tick; ppu.tick; ppu.tick; ppu.tick }`
MainStep ==
    /\ ~panicked
    /\ TickModelled(registers, ram, ppu, cartridge)
    /\ \E t \in {CpuTick(registers, opcode8, opcode16, ram, ppu, cartridge)} :
       \E p1 \in {PpuTick(t.ppu, t.cart)} :
       \E p2 \in {PpuTick(p1.ppu, t.cart)} :
       \E p3 \in {PpuTick(p2.ppu, t.cart)} :
       \E last \in {CASE t.panic -> t.ppu
                      [] p1.panic -> p1.ppu
                      [] p2.panic -> p2.ppu
                      [] OTHER -> p3.ppu} :
           /\ registers' = t.registers
           /\ opcode8' = t.opcode8
           /\ opcode16' = t.opcode16
           /\ ram' = t.ram
           /\ cartridge' = t.cart
           /\ calls' = t.calls
           /\ ppu' = last
           /\ panicked' = (t.panic \/ p1.panic \/ p2.panic \/ p3.panic)
           /\ drv' = [raised |-> ~ppu.vblank /\ last.vblank /\ last.nmi_enable]
    /\ UNCHANGED <<bus, nops>>

NextMain == MainStep

SpecMain == InitMain /\ [][NextMain]_vars

\* C18: when the PPU has set vblank at (241, 1) with NMI-enable set, the
\* CPU services the interrupt before its next instruction: the next
\* iteration leaves S three lower, I set, and the PC of the interrupted loop
\* and a status with B clear on the stack; an iteration that does not
\* follow such a moment pushes nothing.
C18_NmiDelivered ==
    [][ IF drv.raised
        THEN /\ registers'.s = (registers.s + 253) % 256
             /\ registers'.p.interrupt
             /\ ArrGet(ram', RAM_SIZE, STACK_START + registers.s)
                    = registers.pc \div 256
             /\ ArrGet(ram', RAM_SIZE, STACK_START + ((registers.s + 255) % 256))
                    = registers.pc % 256
             /\ ~Bit(ArrGet(ram', RAM_SIZE,
                            STACK_START + ((registers.s + 254) % 256)), 4)
        ELSE registers'.s = registers.s /\ ram' = ram ]_vars

-----------------------------------------------------------------------------
(* SpecMmc1Chr: MMC1 CHR-ROM address resolution.  The control register     *)
(* and the two CHR-bank registers hold any 5-bit values, as serial loads   *)
(* leave them, and the PPU reads the pattern tables.                       *)

Mmc1ChrControls == {0, 12, 15, 16, 28, 31}
Mmc1ChrAddrs == {0, 1, 4095, 4096, 4097, 8191}

InitMmc1Chr ==
    /\ CpuNew
    /\ ppu = PpuNew
    /\ \E control \in Mmc1ChrControls, bank0 \in 0 .. 31, bank1 \in 0 .. 31 :
        cartridge = [Mmc1New(256 * 1024, 128 * 1024, 8 * 1024)
                        EXCEPT !.control = control, !.chr_bank0 = bank0,
                               !.chr_bank1 = bank1]
    /\ bus = NoAccess
    /\ calls = << >>
    /\ drv = [stage |-> "mmc1chr"]
    /\ panicked = FALSE
    /\ nops = 0

\* cartridge.read_ppu(addr) with addr in $0000-$1FFF
Mmc1ChrRead(addr) ==
    /\ ~panicked
    /\ \E r \in {CartReadPpu(cartridge, addr)} :
        /\ panicked' = (r = PANIC)
        /\ bus' = [op |-> "read_ppu", addr |-> addr, value |-> 0, result |-> r]
    /\ UNCHANGED <<ram, registers, opcode8, opcode16, ppu, cartridge, calls, drv,
                   nops>>

NextMmc1Chr == \E addr \in Mmc1ChrAddrs : Mmc1ChrRead(addr)

SpecMmc1Chr == InitMmc1Chr /\ [][NextMmc1Chr]_vars

\* C21: a PPU read of a in $0000-$1FFF returns, with control bit 4 clear,
\* chr_rom[(chr_bank0 >> 1) * 8192 + a] whatever chr_bank1 holds, and with
\* control bit 4 set chr_rom[chr_bank0 * 4096 + a] for a below $1000 and
\* chr_rom[chr_bank1 * 4096 + (a - $1000)] from $1000 on, for all 5-bit
\* values of the two bank registers.
C21_Mmc1ChrBanks ==
    bus.op = "read_ppu" =>
        LET a == bus.addr
            index == IF (cartridge.control \div 16) % 2 = 0
                     THEN (cartridge.chr_bank0 \div 2) * 8192 + a
                     ELSE IF a < 4096
                     THEN cartridge.chr_bank0 * 4096 + a
                     ELSE cartridge.chr_bank1 * 4096 + (a - 4096)
        IN  /\ ~panicked
            /\ index < cartridge.chr_len
            /\ bus.result = ((index % 241) + 5 * (index \div 4096)) % 256

\* The last byte of the upper pattern table in 4 KiB mode comes from the
\* last 4 KiB bank while the lower table is on bank 0.
C21_Witness ==
    /\ bus.op = "read_ppu" /\ bus.addr = 8191
    /\ cartridge.control = 28
    /\ cartridge.chr_bank0 = 0 /\ cartridge.chr_bank1 = 31
    /\ bus.result = ChrRom(128 * 1024, 131071)

-----------------------------------------------------------------------------
(* SpecNRomUnmapped: NROM cartridges with and without PRG-RAM, written and  *)
(* read by the CPU over all of cartridge space and written by the PPU in   *)
(* the pattern tables and the nametables.                                  *)

MaxUnmappedOps == 2
UnmappedCpuAddrs == {16416, 20480, 24575, 24576, 28000, 32767, 32768, 65535}
UnmappedPpuAddrs == {0, 4096, 8191, 8192}
UnmappedValues == {123, 45}

InitNRomUnmapped ==
    /\ CpuNew
    /\ ppu = PpuNew
    /\ \E prg_len \in {16 * 1024, 32 * 1024}, ram_size \in {0, 2048, 8192} :
        cartridge = NRomNew(prg_len, 8 * 1024, ram_size, "HorizontalMirroring")
    /\ bus = NoAccess
    /\ calls = << >>
    /\ drv = [before |-> cartridge, prev |-> NoAccess]
    /\ panicked = FALSE
    /\ nops = 0

\* cpu.write_memory(hw, addr, value)
UnmappedCpuWrite(addr, value) ==
    /\ ~panicked
    /\ nops < MaxUnmappedOps
    /\ \E w \in {WriteMemory(ram, ppu, cartridge, addr, value)} :
        /\ ram' = w.ram
        /\ ppu' = w.ppu
        /\ cartridge' = w.cart
        /\ calls' = w.calls
        /\ panicked' = w.panic
    /\ bus' = [op |-> "write", addr |-> addr, value |-> value, result |-> 0]
    /\ drv' = [before |-> cartridge, prev |-> bus]
    /\ nops' = nops + 1
    /\ UNCHANGED <<registers, opcode8, opcode16>>

\* cpu.read_memory(hw, addr)
UnmappedCpuRead(addr) ==
    /\ ~panicked
    /\ nops < MaxUnmappedOps
    /\ \E r \in {ReadMemory(ram, ppu, cartridge, addr)} :
        /\ ppu' = r.ppu
        /\ calls' = r.calls
        /\ panicked' = (r.result = PANIC)
        /\ bus' = [op |-> "read", addr |-> addr, value |-> 0, result |-> r.result]
    /\ drv' = [before |-> cartridge, prev |-> bus]
    /\ nops' = nops + 1
    /\ UNCHANGED <<ram, cartridge, registers, opcode8, opcode16>>

\* cartridge.write_ppu(addr, value)
UnmappedPpuWrite(addr, value) ==
    /\ ~panicked
    /\ nops < MaxUnmappedOps
    /\ cartridge' = CartWritePpu(cartridge, addr, value)
    /\ bus' = [op |-> "write_ppu", addr |-> addr, value |-> value, result |-> 0]
    /\ drv' = [before |-> cartridge, prev |-> bus]
    /\ nops' = nops + 1
    /\ UNCHANGED <<ram, registers, opcode8, opcode16, ppu, calls, panicked>>

NextNRomUnmapped ==
    \/ \E addr \in UnmappedCpuAddrs, value \in UnmappedValues :
        UnmappedCpuWrite(addr, value)
    \/ \E addr \in UnmappedCpuAddrs : UnmappedCpuRead(addr)
    \/ \E addr \in UnmappedPpuAddrs, value \in UnmappedValues :
        UnmappedPpuWrite(addr, value)

SpecNRomUnmapped == InitNRomUnmapped /\ [][NextNRomUnmapped]_vars

\* The CPU address has no NROM slot behind it, or an empty RAM slot.
UnmappedSlot(addr) ==
    \/ addr \in 16416 .. 24575
    \/ addr \in 24576 .. 32767 /\ cartridge.ram_len = 0

\* C22: a CPU write to $4020-$5FFF, to $8000-$FFFF, to $6000-$7FFF of a
\* cartridge whose RAM size is 0, or a PPU write to $0000-$1FFF leaves the
\* cartridge as it was; a CPU read of $4020-$5FFF, or of $6000-$7FFF with
\* RAM size 0, returns 0.
C22_NRomDiscards ==
    /\ (bus.op = "write" /\ (UnmappedSlot(bus.addr) \/ bus.addr >= 32768))
            => cartridge = drv.before
    /\ (bus.op = "write_ppu" /\ bus.addr <= 8191) => cartridge = drv.before
    /\ (bus.op = "read" /\ UnmappedSlot(bus.addr)) => bus.result = 0
    /\ ~panicked

\* A read of $6000 of a cartridge without RAM returns 0 right after 123 was
\* written there.
C22_Witness ==
    /\ cartridge.ram_len = 0
    /\ drv.prev.op = "write" /\ drv.prev.addr = 24576 /\ drv.prev.value = 123
    /\ bus.op = "read" /\ bus.addr = 24576 /\ bus.result = 0

-----------------------------------------------------------------------------
(* SpecLoop: the body of main's tick loop call by call.  The driver is at  *)
(* one of the four calls of the body (slot 0: cpu.tick, slots 1-3: the     *)
(* three ppu.tick) and counts the ticks made.  RAM holds the program       *)
(* `STA $2000; JMP $0010` at $0010 and A holds the PPUCTRL value.          *)

MaxLoopCpuTicks == 40
LoopCtrlValues == {128, 4, 0}

\* The call of the loop body that follows the call at slot.
LoopNextSlot_TwoDots(slot) == (slot + 1) % 3

LoopNextSlot(slot) == (slot + 1) % 4

InitLoop ==
    /\ opcode8 = 0 /\ opcode16 = 0
    /\ \E a \in LoopCtrlValues :
        registers = [RegistersNew EXCEPT !.pc = MainLoopAddress, !.a = a]
    /\ ram = Poke(Poke(Poke(Poke(Poke(Poke(Zeroes,
                MainLoopAddress, 141), MainLoopAddress + 1, 0),
                MainLoopAddress + 2, 32),
                MainLoopAddress + 3, 76), MainLoopAddress + 4, MainLoopAddress % 256),
                MainLoopAddress + 5, MainLoopAddress \div 256)
    /\ cartridge = NRomNew(16 * 1024, 8 * 1024, 2048, "HorizontalMirroring")
    /\ ppu = PpuNew
    /\ bus = NoAccess
    /\ calls = << >>
    /\ drv = [slot |-> 0, cpu_ticks |-> 0, ppu_ticks |-> 0, wrote |-> FALSE]
    /\ panicked = FALSE
    /\ nops = 0

\* cpu.tick(&mut hardware, &mut instr_log)
LoopCpuTick ==
    /\ ~panicked
    /\ drv.slot = 0
    /\ drv.cpu_ticks < MaxLoopCpuTicks
    /\ TickModelled(registers, ram, ppu, cartridge)
    /\ \E t \in {CpuTick(registers, opcode8, opcode16, ram, ppu, cartridge)} :
        /\ registers' = t.registers
        /\ opcode8' = t.opcode8
        /\ opcode16' = t.opcode16
        /\ ram' = t.ram
        /\ ppu' = t.ppu
        /\ cartridge' = t.cart
        /\ calls' = t.calls
        /\ panicked' = t.panic
        /\ drv' = [slot |-> LoopNextSlot(drv.slot),
                   cpu_ticks |-> drv.cpu_ticks + 1,
                   ppu_ticks |-> drv.ppu_ticks,
                   wrote |-> Instruction(t.opcode) = <<"STA", "Absolute">>
                             /\ t.opcode16 = 8192]
    /\ UNCHANGED <<bus, nops>>

\* hardware.ppu.tick(hardware.cartridge, &mut output)
LoopPpuTick ==
    /\ ~panicked
    /\ drv.slot \in 1 .. 3
    /\ \E t \in {PpuTick(ppu, cartridge)} :
        /\ ppu' = t.ppu
        /\ panicked' = t.panic
    /\ drv' = [drv EXCEPT !.slot = LoopNextSlot(drv.slot),
                          !.ppu_ticks = drv.ppu_ticks + 1]
    /\ UNCHANGED <<ram, registers, opcode8, opcode16, cartridge, bus, calls, nops>>

NextLoop == LoopCpuTick \/ LoopPpuTick

SpecLoop == InitLoop /\ [][NextLoop]_vars

\* The fields of the PPU that a write of x to $2000 assigns hold x.
CtrlVisible(x) ==
    /\ ppu.nmi_enable = Bit(x, 7)
    /\ ppu.increment_mode = Bit(x, 2)
    /\ ppu.status_artifact = x

\* C24: every CPU tick is followed by exactly three PPU ticks before the
\* next CPU tick: a step that makes a CPU tick starts with three times as
\* many PPU ticks made as CPU ticks, a step that makes a PPU tick starts
\* with one, two or three fewer than three times the CPU ticks; and the
\* PPUCTRL write of a CPU tick is in the PPU before each of the three PPU
\* ticks that follow it and after the last.
C24_Interleaving ==
    /\ [][/\ drv'.cpu_ticks # drv.cpu_ticks =>
                /\ drv.ppu_ticks = 3 * drv.cpu_ticks
                /\ drv'.ppu_ticks = drv.ppu_ticks
          /\ drv'.ppu_ticks # drv.ppu_ticks =>
                /\ drv'.ppu_ticks = drv.ppu_ticks + 1
                /\ drv'.ppu_ticks \in 3 * drv.cpu_ticks - 2 .. 3 * drv.cpu_ticks
                /\ drv'.cpu_ticks = drv.cpu_ticks
                /\ drv.wrote => CtrlVisible(registers.a) ]_vars
    /\ [](drv.slot = 0 => drv.ppu_ticks = 3 * drv.cpu_ticks)
    /\ [](drv.wrote => CtrlVisible(registers.a))

\* The third PPU tick after the first CPU tick, which wrote $80 to PPUCTRL,
\* has run with NMI-enable set.
C24_Witness ==
    /\ drv.slot = 0 /\ drv.cpu_ticks = 1 /\ drv.ppu_ticks = 3
    /\ drv.wrote /\ registers.a = 128 /\ ppu.nmi_enable
    /\ ppu.current_scanline = 261 /\ ppu.current_cycle = 3

(***************************************************************************)
(* cartridge.rs: the iNES loader and the constructors it calls             *)
(***************************************************************************)

\* mappers/nrom.rs NRom::new: mapper = PANIC stands for a failed assert!
MappersNRomNew(prg_len, chr_len, ram_size) ==
    IF ~(prg_len = 16 * 1024 \/ prg_len = 32 * 1024) THEN [mapper |-> PANIC]
    ELSE IF ~(ram_size % 1024 = 0 /\ ram_size <= 8192) THEN [mapper |-> PANIC]
    ELSE [mapper |-> 0, prg_len |-> prg_len, prg_mask |-> prg_len - 1,
          chr_len |-> chr_len, ram |-> Zeroes, ram_size |-> ram_size,
          ram_mask |-> IF ram_size = 0 THEN 0 ELSE ram_size - 1]

\* mappers/mmc1.rs Mmc1::new
MappersMmc1New(prg_len, chr_len, ram_size) ==
    IF prg_len # 16 * 16 * 1024 THEN [mapper |-> PANIC]
    ELSE IF ram_size # 8 * 1024 THEN [mapper |-> PANIC]
    ELSE [mapper |-> 1, prg_len |-> prg_len, chr_len |-> chr_len,
          ram |-> Zeroes, ram_size |-> ram_size, control |-> 12,
          chr_bank0 |-> 0, chr_bank1 |-> 0, prg_bank |-> 0, shifter |-> 32]

LoadError == [kind |-> "error"]

\* Box::new(constructor result), or the abort of the constructor
LoadBoxed(rom) ==
    IF rom.mapper = PANIC THEN [kind |-> "panic"] ELSE [kind |-> "ok", rom |-> rom]

\* the match on the mapper number at the end of load_ines
LoadMapper(mapper, prg_size, chr_size, ram_size) ==
    CASE mapper = 0 -> LoadBoxed(MappersNRomNew(prg_size, chr_size, ram_size))
      [] mapper = 1 -> LoadBoxed(MappersMmc1New(prg_size, chr_size, ram_size))
      [] OTHER -> LoadError

\* load_ines: header is the 16 header bytes (header[i + 1] is the source's
\* header[i]), body the number of bytes the file holds after them
LoadInes(header, body) ==
    LET prg_size == header[5] * 16 * 1024
        chr_size == header[6] * 8 * 1024
        flags6 == header[7]
        trainer == And(flags6, 4) # 0
        flags7 == header[8]
        mapper == Or(flags6 \div 16, And(flags7, 240))
        vs_unisystem == And(flags7, 1) # 0
        file_format == And(flags7, 12) \div 4
        ram_size == IF header[9] = 0 THEN 8 * 1024 ELSE header[9] * 8 * 1024
    IN  IF trainer THEN LoadError
        ELSE IF vs_unisystem THEN LoadError
        ELSE IF file_format # 0 THEN LoadError
        ELSE IF header[10] # 1 /\ header[10] # 0 THEN LoadError
        ELSE IF \E i \in 11 .. 15 : header[i + 1] # 0 THEN LoadError
        ELSE IF body < prg_size THEN LoadError
        ELSE IF body - prg_size < chr_size THEN LoadError
        ELSE LoadMapper(mapper, prg_size, chr_size, ram_size)

\* load_rom after File::open succeeded: magic holds the first four bytes
LoadRom(header, body) ==
    IF SubSeq(header, 1, 4) = <<78, 69, 83, 26>>
    THEN LoadInes(header, body)
    ELSE LoadError

LoaderPrgUnits == {0, 1, 2, 3, 16}
LoaderChrUnits == {0, 1, 16}
LoaderFlags6 == {0, 1, 2, 4, 8, 16, 32}
LoaderFlags7 == {0, 1, 4, 16}
LoaderRamUnits == {0, 1, 2}
LoaderByte9 == {0, 1, 2}
LoaderTail == {0, 7}
LoaderMagic == {78, 77}

InitLoader ==
    /\ CpuNew
    /\ ppu = PpuNew
    /\ cartridge = [mapper |-> PANIC]
    /\ bus = NoAccess
    /\ calls = << >>
    /\ \E magic \in LoaderMagic, prg \in LoaderPrgUnits, chr \in LoaderChrUnits,
          flags6 \in LoaderFlags6, flags7 \in LoaderFlags7,
          ram_units \in LoaderRamUnits, byte9 \in LoaderByte9,
          tail \in LoaderTail, complete \in BOOLEAN :
        drv = [header |-> <<magic, 69, 83, 26, prg, chr, flags6, flags7,
                            ram_units, byte9, 0, 0, 0, tail, 0, 0>>,
               body |-> IF complete THEN prg * 16 * 1024 + chr * 8 * 1024
                        ELSE 0,
               result |-> "none"]
    /\ panicked = FALSE
    /\ nops = 0

\* load_rom(path) on the file described by drv
LoaderLoad ==
    /\ drv.result = "none"
    /\ \E r \in {LoadRom(drv.header, drv.body)} :
        /\ drv' = [drv EXCEPT !.result = r.kind]
        /\ panicked' = (r.kind = "panic")
        /\ cartridge' = IF r.kind = "ok" THEN r.rom ELSE cartridge
    /\ UNCHANGED <<ram, registers, opcode8, opcode16, ppu, bus, calls, nops>>

NextLoader == LoaderLoad

SpecLoader == InitLoader /\ [][NextLoader]_vars

\* C25: for every 16-byte iNES header, whatever its PRG size, CHR size,
\* flags, mapper number and PRG-RAM size, loading returns a constructed
\* mapper or an error value and never aborts in the loader or in a mapper
\* constructor.
C25_LoadNeverAborts ==
    drv.result \in {"none", "ok", "error"} /\ ~panicked

(***************************************************************************)
(* ppu.rs: the CPU's accesses to the registers $2000-$2007                 *)
(***************************************************************************)
(* Every value of t and v below $8000, of fine X and of the write toggle   *)
(* can be produced by register writes: two writes to $2006 set bits 8-13   *)
(* and 0-7 of t, two writes to $2005 then set bits 0-4, 5-9 and 12-14 and  *)
(* fine X, and a write to $2005 followed by one to $2006 copies t, with a  *)
(* new low byte, into v.  A write to $2002 sets the artefact and nothing   *)
(* else, and Ppu::tick raises vblank.  The register file therefore starts  *)
(* from probe values of these fields, and the CPU makes up to MaxRegOps    *)
(* accesses.                                                               *)

MaxRegOps == 2

RegTemps == {0, 32767, 10837}
RegCurrents == {9152, 16383}
RegArtifacts == {0, 255}
RegAddrs == PPU_START .. PPU_START + 7
RegValues == {165, 90}

\* The fields of the PPU that the register claims speak about.
RegFields(p) ==
    [t |-> p.temp_vram_address, v |-> p.current_vram_address,
     x |-> p.fine_x_scroll, w |-> p.write_toggle, vblank |-> p.vblank,
     artifact |-> p.status_artifact, increment_mode |-> p.increment_mode]

InitPpuRegs ==
    /\ CpuNew
    /\ \E t \in RegTemps, v \in RegCurrents, w \in BOOLEAN, vblank \in BOOLEAN,
          artifact \in RegArtifacts :
        ppu = [PpuNew EXCEPT !.temp_vram_address = t,
                             !.current_vram_address = v,
                             !.write_toggle = w,
                             !.vblank = vblank,
                             !.status_artifact = artifact]
    /\ cartridge = NRomNew(16 * 1024, 8 * 1024, 2048, "HorizontalMirroring")
    /\ bus = NoAccess
    /\ calls = << >>
    /\ drv = [before |-> RegFields(PpuNew), last |-> NoAccess]
    /\ panicked = FALSE
    /\ nops = 0

\* hardware.write_memory(address, value) with address in $2000-$2007
RegWrite(address, value) ==
    /\ ~panicked
    /\ nops < MaxRegOps
    /\ nops' = nops + 1
    /\ \E w \in {WriteMemory(ram, ppu, cartridge, address, value)} :
        /\ ram' = w.ram
        /\ ppu' = w.ppu
        /\ cartridge' = w.cart
        /\ calls' = w.calls
        /\ panicked' = w.panic
    /\ bus' = [op |-> "write", addr |-> address, value |-> value, result |-> 0]
    /\ drv' = [before |-> RegFields(ppu), last |-> bus]
    /\ UNCHANGED <<registers, opcode8, opcode16>>

\* hardware.read_memory(address) with address in $2000-$2007
RegRead(address) ==
    /\ ~panicked
    /\ nops < MaxRegOps
    /\ nops' = nops + 1
    /\ \E r \in {ReadMemory(ram, ppu, cartridge, address)} :
        /\ ppu' = r.ppu
        /\ calls' = r.calls
        /\ panicked' = (r.result = PANIC)
        /\ bus' = [op |-> "read", addr |-> address, value |-> 0,
                   result |-> r.result]
    /\ drv' = [before |-> RegFields(ppu), last |-> bus]
    /\ UNCHANGED <<ram, cartridge, registers, opcode8, opcode16>>

NextPpuRegs ==
    \/ \E address \in RegAddrs, value \in RegValues : RegWrite(address, value)
    \/ \E address \in RegAddrs : RegRead(address)

SpecPpuRegs == InitPpuRegs /\ [][NextPpuRegs]_vars

\* The access of this step: a completed CPU write or read of a register.
RegWrote(address) ==
    nops' = nops + 1 /\ ~panicked' /\ bus'.op = "write" /\ bus'.addr = address

RegWasRead(address) ==
    nops' = nops + 1 /\ ~panicked' /\ bus'.op = "read" /\ bus'.addr = address

\* C26: a write of x to $2000 copies bits 0-1 of x into bits 10-11 of t and
\* leaves bits 0-9 and 12-14 of t, v, fine X and the write toggle unchanged.
C26_CtrlWrite ==
    [][RegWrote(8192) =>
        /\ And(ppu'.temp_vram_address, 3072) = And(bus'.value, 3) * 1024
        /\ And(ppu'.temp_vram_address, 65535 - 3072)
            = And(ppu.temp_vram_address, 65535 - 3072)
        /\ ppu'.current_vram_address = ppu.current_vram_address
        /\ ppu'.fine_x_scroll = ppu.fine_x_scroll
        /\ ppu'.write_toggle = ppu.write_toggle]_vars

\* What the $2005 or $2006 arm does as a first write of the value.
FirstWriteOf(address, value, p) ==
    IF address = 8197
    THEN [p EXCEPT !.temp_vram_address = Or(And(@, 65535 - 31), value \div 8),
                   !.fine_x_scroll = And(value, 7),
                   !.write_toggle = TRUE]
    ELSE [p EXCEPT !.temp_vram_address =
                        Or(And(@, 65535 - 65280), And(value, 63) * 256),
                   !.write_toggle = TRUE]

\* The same fields after the access as in the argument; the artefact byte
\* follows every access and is left out.
SameRegisters(p, q) ==
    [RegFields(p) EXCEPT !.artifact = 0] = [RegFields(q) EXCEPT !.artifact = 0]

\* C27: $2005 and $2006 share the write toggle: each write to either flips
\* it, a write is handled as a first write exactly when the toggle is clear,
\* a read of $2002 clears it, and so the write to $2005 or $2006 that
\* follows a read of $2002 is always handled as a first write.
C27_SharedToggle ==
    [][/\ \A address \in {8197, 8198} :
            RegWrote(address) =>
                /\ ppu'.write_toggle = ~ppu.write_toggle
                /\ SameRegisters(ppu', FirstWriteOf(address, bus'.value, ppu))
                    <=> ~ppu.write_toggle
                /\ (bus.op = "read" /\ bus.addr = 8194) =>
                    SameRegisters(ppu', FirstWriteOf(address, bus'.value, ppu))
       /\ RegWasRead(8194) => ~ppu'.write_toggle]_vars

\* A write of $5A to $2006 right after a read of $2002, handled as a first
\* write: bits 8-13 of t hold $1A and the toggle is set.
C27_Witness ==
    /\ nops = 2 /\ ~panicked
    /\ drv.last.op = "read" /\ drv.last.addr = 8194
    /\ bus.op = "write" /\ bus.addr = 8198 /\ ppu.write_toggle
    /\ ppu.temp_vram_address = 256 * 26 + 255

\* Bits hi..lo of a word, as a number.
Bits(word, hi, lo) == (word \div 2 ^ lo) % 2 ^ (hi - lo + 1)

\* C28: a first write of x to $2005 sets t[4:0] to x[7:3] and fine X to
\* x[2:0] and changes no other bit of t; a second write sets t[14:12] to
\* x[2:0] and t[9:5] to x[7:3] and changes no other bit of t nor fine X;
\* neither write changes v.
C28_ScrollRouting ==
    [][RegWrote(8197) =>
        LET x == bus'.value
            t == ppu.temp_vram_address
            t1 == ppu'.temp_vram_address
        IN  /\ ppu'.current_vram_address = ppu.current_vram_address
            /\ ~ppu.write_toggle =>
                /\ Bits(t1, 4, 0) = Bits(x, 7, 3)
                /\ ppu'.fine_x_scroll = Bits(x, 2, 0)
                /\ Bits(t1, 15, 5) = Bits(t, 15, 5)
            /\ ppu.write_toggle =>
                /\ Bits(t1, 14, 12) = Bits(x, 2, 0)
                /\ Bits(t1, 9, 5) = Bits(x, 7, 3)
                /\ Bits(t1, 4, 0) = Bits(t, 4, 0)
                /\ Bits(t1, 11, 10) = Bits(t, 11, 10)
                /\ Bits(t1, 15, 15) = Bits(t, 15, 15)
                /\ ppu'.fine_x_scroll = ppu.fine_x_scroll]_vars

\* The two writes in a row, $A5 then $5A, onto t = $2A55: the first leaves
\* $2A54 and fine X 5, the second $2974.
C28_Witness ==
    /\ nops = 2 /\ ~panicked
    /\ drv.last.op = "write" /\ drv.last.addr = 8197 /\ drv.last.value = 165
    /\ bus.op = "write" /\ bus.addr = 8197 /\ bus.value = 90
    /\ drv.before.t = 10836 /\ drv.before.x = 5 /\ drv.before.w
    /\ ppu.temp_vram_address = 10612 /\ ppu.fine_x_scroll = 5
    /\ ~ppu.write_toggle

C30_StatusRead ==
    [][RegWasRead(8194) =>
        /\ Bit(bus'.result, 7) = ppu.vblank
        /\ Bit(bus'.result, 6) = ppu.sprite_0_hit
        /\ Bit(bus'.result, 5) = ppu.sprite_overflow
        /\ bus'.result % 32 = ppu.status_artifact % 32
        /\ ppu'.vblank = ppu.vblank]_vars

\* A read of $2002 in vblank with the artefact $FF returned $9F and left
\* vblank set.
C30_Witness ==
    /\ ~panicked /\ bus.op = "read" /\ bus.addr = 8194 /\ bus.result = 159
    /\ drv.before.vblank /\ drv.before.artifact = 255
    /\ ppu.vblank

RegWriteOnly == {8192, 8193, 8195, 8197, 8198}

Xor(a, b) == a + b - 2 * And(a, b)

\* The two zero-page reads of AddrIndirectX::decode and AddrIndirectY::decode.
Pointer(m, iaddr) ==
    ReadMemory(m.ram, m.ppu, m.cart, (iaddr + 1) % 256).result * 256
        + ReadMemory(m.ram, m.ppu, m.cart, iaddr).result

\* A::decode for the modes that address memory: the effective address.
Decode(mode, m, o8, o16) ==
    CASE mode = "ZeroPage" -> o8
      [] mode = "ZeroPageX" -> (o8 + m.registers.x) % 256
      [] mode = "ZeroPageY" -> (o8 + m.registers.y) % 256
      [] mode = "Absolute" -> o16
      [] mode = "AbsoluteX" -> (o16 + m.registers.x) % 65536
      [] mode = "AbsoluteY" -> (o16 + m.registers.y) % 65536
      [] mode = "IndirectX" -> Pointer(m, (o8 + m.registers.x) % 256)
      [] mode = "IndirectY" -> (Pointer(m, o8) + m.registers.y) % 65536

\* The byte OpDEC, OpINC, OpASL, OpLSR, OpROL and OpROR write back.
ModifyResult(name, src, carry) ==
    CASE name = "DEC" -> (src + 255) % 256
      [] name = "INC" -> (src + 1) % 256
      [] name = "ASL" -> (src * 2) % 256
      [] name = "LSR" -> src \div 2
      [] name = "ROL" -> Or((src * 2) % 256, Flag(carry, 0))
      [] name = "ROR" -> Or(src \div 2, Flag(carry, 7))

\* The carry they leave: DEC and INC do not touch it.
ModifyCarry(name, src, carry) ==
    CASE name \in {"ASL", "ROL"} -> Bit(src, 7)
      [] name \in {"LSR", "ROR"} -> Bit(src, 0)
      [] OTHER -> carry

\* access.write(result) and the flags, r being the access.read before it.
ModifyStore(name, m, r, result, w) ==
    [registers |-> [m.registers EXCEPT
                        !.p.carry = ModifyCarry(name, r.result, @),
                        !.p.zero = (result = 0),
                        !.p.negative = Bit(result, 7)],
     ram |-> w.ram, ppu |-> w.ppu, cart |-> w.cart,
     calls |-> m.calls \o r.calls \o w.calls, panic |-> m.panic \/ w.panic]

ModifyAt(name, m, addr, r) ==
    IF r.result = PANIC THEN [m EXCEPT !.panic = TRUE]
    ELSE ModifyStore(name, m, r,
                     ModifyResult(name, r.result, m.registers.p.carry),
                     WriteMemory(m.ram, r.ppu, m.cart, addr,
                                 ModifyResult(name, r.result, m.registers.p.carry)))

\* OpDEC, OpINC, OpASL, OpLSR, OpROL, OpROR ::execute in a memory mode
OpModify(name, mode, m, o8, o16) ==
    ModifyAt(name, m, Decode(mode, m, o8, o16),
             ReadMemory(m.ram, m.ppu, m.cart, Decode(mode, m, o8, o16)))

\* OpADC::execute after the operand read; result is the u16 sum
AdcRegisters(regs, src, result) ==
    [regs EXCEPT !.a = result % 256,
                 !.p.carry = result > 255,
                 !.p.zero = (result % 256 = 0),
                 !.p.overflow = /\ And(Xor(regs.a, src), 128) = 0
                                /\ And(Xor(regs.a, result), 128) # 0,
                 !.p.negative = Bit(result, 7)]

\* OpSBC::execute setting overflow by the rule of OpADC.
SbcRegisters_AdcOverflow(regs, src, result) ==
    [regs EXCEPT !.a = result % 256,
                 !.p.carry = result <= 255,
                 !.p.zero = (result % 256 = 0),
                 !.p.overflow = /\ And(Xor(regs.a, src), 128) = 0
                                /\ And(Xor(result, regs.a), 128) # 0,
                 !.p.negative = Bit(result, 7)]

\* OpSBC::execute after the operand read; result is the wrapped u16
SbcRegisters(regs, src, result) ==
    [regs EXCEPT !.a = result % 256,
                 !.p.carry = result <= 255,
                 !.p.zero = (result % 256 = 0),
                 !.p.overflow = /\ And(Xor(regs.a, src), 128) # 0
                                /\ And(Xor(result, regs.a), 128) # 0,
                 !.p.negative = Bit(result, 7)]

\* OpAND, OpORA and OpEOR after the operand read
LogicRegisters(regs, result) ==
    [regs EXCEPT !.a = result, !.p.zero = (result = 0),
                 !.p.negative = Bit(result, 7)]

\* OpCMP after the operand read; result is a + (!src + 1), wrapped
CmpRegisters(regs, src, result) ==
    [regs EXCEPT !.p.carry = regs.a >= src, !.p.zero = (result = 0),
                 !.p.negative = Bit(result, 7)]

\* The registers after OpADC, OpSBC, OpAND, OpORA, OpEOR or OpCMP read src.
Combine(name, regs, src) ==
    CASE name = "ADC" ->
            AdcRegisters(regs, src, regs.a + src + Flag(regs.p.carry, 0))
      [] name = "SBC" ->
            SbcRegisters(regs, src,
                (regs.a + 2 * 65536 - src - (1 - Flag(regs.p.carry, 0))) % 65536)
      [] name = "AND" -> LogicRegisters(regs, And(regs.a, src))
      [] name = "ORA" -> LogicRegisters(regs, Or(regs.a, src))
      [] name = "EOR" -> LogicRegisters(regs, Xor(regs.a, src))
      [] name = "CMP" ->
            CmpRegisters(regs, src, (regs.a + (((255 - src) + 1) % 256)) % 256)

CombineAt(name, m, r) ==
    IF r.result = PANIC THEN [m EXCEPT !.panic = TRUE]
    ELSE [m EXCEPT !.registers = Combine(name, m.registers, r.result),
                   !.ppu = r.ppu, !.calls = m.calls \o r.calls]

\* OpADC, OpSBC, OpAND, OpORA, OpEOR, OpCMP ::execute in a memory mode
OpCombine(name, mode, m, o8, o16) ==
    CombineAt(name, m, ReadMemory(m.ram, m.ppu, m.cart, Decode(mode, m, o8, o16)))

\* The two primitives of each composite, in the order execute calls them.
COMPOSITES ==
    [DCP |-> <<"DEC", "CMP">>, ISB |-> <<"INC", "SBC">>,
     RLA |-> <<"ROL", "AND">>, RRA |-> <<"ROR", "ADC">>,
     SLO |-> <<"ASL", "ORA">>, SRE |-> <<"LSR", "EOR">>]

\* The modes the dispatch table gives every composite.
CompositeModes ==
    {"IndirectX", "ZeroPage", "Absolute", "IndirectY", "ZeroPageX",
     "AbsoluteY", "AbsoluteX"}

\* OpDCP, OpISB, OpRLA, OpRRA, OpSLO, OpSRE ::execute
OpComposite(name, mode, m, o8, o16) ==
    OpCombine(COMPOSITES[name][2], mode,
              OpModify(COMPOSITES[name][1], mode, m, o8, o16), o8, o16)

(***************************************************************************)
(* SpecComposite: one composite instruction executes on a machine whose    *)
(* zero page holds a pointer at $10/$11 and whose operands, index          *)
(* registers, accumulator and carry are drawn from probes.  drv notes the  *)
(* address and the byte the first primitive wrote and the address and the  *)
(* byte the second primitive read.                                         *)
(***************************************************************************)

MaxCompositeOps == 1

\* <<low, high>> of the pointer: to page 3, to itself, to its high byte.
CompositePointers == {<<0, 3>>, <<16, 0>>, <<17, 0>>}
CompositeIndexes == {0, 1}
CompositeBytes == {0, 127, 255}
CompositeAccumulators == {1, 128}

Machine ==
    [registers |-> registers, ram |-> ram, ppu |-> ppu, cart |-> cartridge,
     calls |-> << >>, panic |-> FALSE]

InitComposite ==
    /\ \E pointer \in CompositePointers, byte \in CompositeBytes :
        ram = ArrPut(ArrPut(ArrPut(ArrPut(Zeroes, 768, byte), 769, byte),
                            16, pointer[1]), 17, pointer[2])
    /\ \E a \in CompositeAccumulators, x \in CompositeIndexes,
          y \in CompositeIndexes, carry \in BOOLEAN :
        registers = [RegistersNew EXCEPT !.a = a, !.x = x, !.y = y,
                                         !.p.carry = carry]
    /\ \E x \in CompositeIndexes : opcode8 = 16 - x
    /\ opcode16 \in {768, 16}
    /\ ppu = PpuNew
    /\ cartridge = NRomNew(16 * 1024, 8 * 1024, 2048, "HorizontalMirroring")
    /\ bus = NoAccess
    /\ calls = << >>
    /\ drv = [op |-> "none", mode |-> "none", first_addr |-> 0, written |-> 0,
              second_addr |-> 0, src |-> 0]
    /\ panicked = FALSE
    /\ nops = 0

\* instruction.execute(cpu, hw) of the composite name in the mode
CompositeExecute(name, mode) ==
    /\ ~panicked
    /\ nops < MaxCompositeOps
    /\ nops' = nops + 1
    /\ \E m1 \in {OpModify(COMPOSITES[name][1], mode, Machine, opcode8, opcode16)} :
       \E m2 \in {OpCombine(COMPOSITES[name][2], mode, m1, opcode8, opcode16)} :
       \E first \in {Decode(mode, Machine, opcode8, opcode16)} :
       \E second \in {Decode(mode, m1, opcode8, opcode16)} :
        /\ registers' = m2.registers
        /\ ram' = m2.ram
        /\ ppu' = m2.ppu
        /\ cartridge' = m2.cart
        /\ calls' = m2.calls
        /\ panicked' = m2.panic
        /\ drv' = [op |-> name, mode |-> mode,
                   first_addr |-> first,
                   written |-> ReadMemory(m1.ram, m1.ppu, m1.cart, first).result,
                   second_addr |-> second,
                   src |-> ReadMemory(m1.ram, m1.ppu, m1.cart, second).result]
    /\ bus' = NoAccess
    /\ UNCHANGED <<opcode8, opcode16>>

NextComposite ==
    \E name \in DOMAIN COMPOSITES, mode \in CompositeModes :
        CompositeExecute(name, mode)

SpecComposite == InitComposite /\ [][NextComposite]_vars

\* C32: each composite (DCP, ISB, RLA, RRA, SLO, SRE), in every mode it is
\* dispatched with, applies its two primitives to the same effective
\* address: the second primitive reads the address the first just wrote
\* and operates on the byte just written, for every memory content and
\* register state.
C32_CompositeSameAddress ==
    drv.op # "none" =>
        /\ drv.second_addr = drv.first_addr
        /\ drv.src = drv.written

(***************************************************************************)
(* SpecArith: OpSBC and OpADC in immediate mode, for every accumulator,    *)
(* operand byte and carry                                                  *)
(***************************************************************************)

\* OpADC::<AddrImmediate> and OpSBC::<AddrImmediate>: the operand is opcode8
OpCombineImmediate(name, m, o8) ==
    [m EXCEPT !.registers = Combine(name, m.registers, o8)]

InitArith ==
    /\ ram = Zeroes
    /\ \E a \in Byte, carry \in BOOLEAN :
        registers = [RegistersNew EXCEPT !.a = a, !.p.carry = carry]
    /\ opcode8 \in Byte
    /\ opcode16 = opcode8
    /\ ppu = PpuNew
    /\ cartridge = NRomNew(16 * 1024, 8 * 1024, 2048, "HorizontalMirroring")
    /\ bus = NoAccess
    /\ calls = << >>
    /\ drv = [op |-> "none", before |-> RegistersNew]
    /\ panicked = FALSE
    /\ nops = 0

\* instruction.execute(cpu, hw) of ADC #opcode8 or SBC #opcode8
ArithExecute(name) ==
    /\ drv.op = "none"
    /\ \E m \in {OpCombineImmediate(name, Machine, opcode8)} :
        registers' = m.registers
    /\ drv' = [op |-> name, before |-> registers]
    /\ UNCHANGED <<ram, opcode8, opcode16, ppu, cartridge, bus, calls,
                   panicked, nops>>

NextArith == \E name \in {"ADC", "SBC"} : ArithExecute(name)

SpecArith == InitArith /\ [][NextArith]_vars

\* C33: for every accumulator a, operand m and carry-in c, SBC leaves the
\* accumulator and the carry, zero, overflow and negative flags that ADC
\* leaves when executed with the operand m XOR $FF from the same state.
C33_SbcIsAdcOfComplement ==
    drv.op = "SBC" =>
        LET adc == OpCombineImmediate("ADC", [Machine EXCEPT !.registers = drv.before],
                                      Xor(opcode8, 255)).registers
        IN  /\ registers.a = adc.a
            /\ registers.p.carry = adc.p.carry
            /\ registers.p.zero = adc.p.zero
            /\ registers.p.overflow = adc.p.overflow
            /\ registers.p.negative = adc.p.negative

\* $80 - $01 with the carry set: $7F, carry set, overflow set.
C33_Witness ==
    /\ drv.op = "SBC" /\ drv.before.a = 128 /\ opcode8 = 1
    /\ drv.before.p.carry
    /\ registers.a = 127 /\ registers.p.carry /\ registers.p.overflow
    /\ ~registers.p.negative /\ ~registers.p.zero

(***************************************************************************)
(* SpecStack: up to MaxStackOps stack instructions execute from a machine  *)
(* whose stack pointer, accumulator, flags and post-fetch PC are probes.   *)
(* drv keeps the last two instructions and the registers before each.      *)
(***************************************************************************)

MaxStackOps == 2

StackInstructions == {"PHA", "PHP", "PLA", "PLP", "JSR", "RTS", "RTI", "BRK"}
StackPointers == {0, 1, 2, 253, 255}
StackAccumulators == {0, 165}
\* Status bytes: all six flags set, and carry, decimal and negative only.
StackFlags == {207, 137}
StackPcs == {515, 0}
StackTargets == {1024}

InitStack ==
    /\ ram = Zeroes
    /\ \E s \in StackPointers, a \in StackAccumulators, flags \in StackFlags,
          pc \in StackPcs :
        registers = [RegistersNew EXCEPT !.s = s, !.a = a, !.pc = pc,
                                         !.p = StatusSetValue(@, flags)]
    /\ opcode8 = 0
    /\ opcode16 \in StackTargets
    /\ ppu = PpuNew
    /\ cartridge = NRomNew(16 * 1024, 8 * 1024, 2048, "HorizontalMirroring")
    /\ bus = NoAccess
    /\ calls = << >>
    /\ drv = [op |-> "none", prev_op |-> "none", before |-> RegistersNew,
              origin |-> RegistersNew]
    /\ panicked = FALSE
    /\ nops = 0

\* instruction.execute(cpu, hw) of a stack instruction
StackExecute(name) ==
    /\ ~panicked
    /\ nops < MaxStackOps
    /\ nops' = nops + 1
    /\ \E m \in {ExecuteStack(name, Machine, opcode16)} :
        /\ registers' = m.registers
        /\ ram' = m.ram
        /\ ppu' = m.ppu
        /\ cartridge' = m.cart
        /\ calls' = m.calls
        /\ panicked' = m.panic
    /\ drv' = [op |-> name, prev_op |-> drv.op, before |-> registers,
               origin |-> drv.before]
    /\ UNCHANGED <<opcode8, opcode16, bus>>

NextStack == \E name \in StackInstructions : StackExecute(name)

SpecStack == InitStack /\ [][NextStack]_vars

\* The address of the stack slot n above (n > 0) or below S, S wrapping.
Slot(n) == 256 + ((registers.s + 256 + n) % 256)

\* ram[address] before the step
Stacked(address) == ArrGet(ram, RAM_SIZE, address)

\* What a step of each stack instruction does to RAM and S.
StackStep(name) ==
    CASE name = "PHA" ->
            /\ ram' = ArrPut(ram, Slot(0), registers.a)
            /\ registers'.s = (registers.s + 255) % 256
      [] name = "PHP" ->
            /\ ram' = ArrPut(ram, Slot(0), StatusValue(registers.p, TRUE))
            /\ registers'.s = (registers.s + 255) % 256
      [] name = "PLA" ->
            /\ ram' = ram
            /\ registers'.s = (registers.s + 1) % 256
            /\ registers'.a = Stacked(Slot(1))
      [] name = "PLP" ->
            /\ ram' = ram
            /\ registers'.s = (registers.s + 1) % 256
            /\ StatusValue(registers'.p, TRUE) = Or(Stacked(Slot(1)), 48)
      [] name = "JSR" ->
            /\ ram' = ArrPut(ArrPut(ram, Slot(0),
                                    ((registers.pc + 65535) % 65536) \div 256),
                             Slot(-1), ((registers.pc + 65535) % 65536) % 256)
            /\ registers'.s = (registers.s + 254) % 256
      [] name = "RTS" ->
            /\ ram' = ram
            /\ registers'.s = (registers.s + 2) % 256
            /\ registers'.pc
                = (Stacked(Slot(2)) * 256 + Stacked(Slot(1)) + 1) % 65536
      [] name = "RTI" ->
            /\ ram' = ram
            /\ registers'.s = (registers.s + 3) % 256
            /\ StatusValue(registers'.p, TRUE) = Or(Stacked(Slot(1)), 48)
            /\ registers'.pc = Stacked(Slot(3)) * 256 + Stacked(Slot(2))
      [] name = "BRK" ->
            /\ ram' = ArrPut(ArrPut(ArrPut(ram, Slot(0), registers.pc \div 256),
                                    Slot(-1), registers.pc % 256),
                             Slot(-2), StatusValue(registers.p, TRUE))
            /\ registers'.s = (registers.s + 253) % 256

\* C34: every stack access of PHA, PHP, PLA, PLP, JSR, RTS, RTI and
\* interrupt entry is in $0100-$01FF with S wrapping modulo 256: a push
\* writes at $0100+S and then decrements S, a pull increments S and then
\* reads at $0100+S; so from every S, $00 and $FF included, PHA then PLA
\* restores A and S and PHP then PLP restores the six flags and S.
C34_StackDiscipline ==
    /\ [](/\ (drv.prev_op = "PHA" /\ drv.op = "PLA") =>
                /\ registers.a = drv.origin.a
                /\ registers.s = drv.origin.s
          /\ (drv.prev_op = "PHP" /\ drv.op = "PLP") =>
                /\ registers.p = drv.origin.p
                /\ registers.s = drv.origin.s)
    /\ [][nops' = nops + 1 => StackStep(drv'.op)]_vars

\* PHA then PLA from S = $00: the byte went to $0100, S passed through $FF.
C34_Witness ==
    /\ drv.prev_op = "PHA" /\ drv.op = "PLA"
    /\ drv.origin.s = 0 /\ drv.origin.a = 165 /\ drv.before.s = 255
    /\ ArrGet(ram, RAM_SIZE, 256) = 165
    /\ registers.a = 165 /\ registers.s = 0

(***************************************************************************)
(* SpecNRomRam: NROM cartridges with every kind of PRG-RAM size the        *)
(* constructor accepts; the CPU writes and reads in $6000-$7FFF.           *)
(***************************************************************************)

MaxNRomRamOps == 2

\* Powers of two and the sizes between them.
NRomRamSizes == {1024, 2048, 3072, 4096, 5120, 8192}
NRomRamAddrs == {24576, 24577, 25600, 26624, 27648, 28672, 29696, 31744, 32767}
NRomRamValues == {7, 200}

InitNRomRam ==
    /\ CpuNew
    /\ ppu = PpuNew
    /\ \E ram_size \in NRomRamSizes :
        cartridge = NRomNew(16 * 1024, 8 * 1024, ram_size, "HorizontalMirroring")
    /\ bus = NoAccess
    /\ calls = << >>
    /\ drv = [prev |-> NoAccess]
    /\ panicked = FALSE
    /\ nops = 0

\* cpu.write_memory(hw, addr, value) with addr in $6000-$7FFF
NRomRamWrite(addr, value) ==
    /\ ~panicked
    /\ nops < MaxNRomRamOps
    /\ \E w \in {WriteMemory(ram, ppu, cartridge, addr, value)} :
        /\ ram' = w.ram
        /\ ppu' = w.ppu
        /\ cartridge' = w.cart
        /\ calls' = w.calls
        /\ panicked' = w.panic
    /\ bus' = [op |-> "write", addr |-> addr, value |-> value, result |-> 0]
    /\ drv' = [prev |-> bus]
    /\ nops' = nops + 1
    /\ UNCHANGED <<registers, opcode8, opcode16>>

\* cpu.read_memory(hw, addr) with addr in $6000-$7FFF
NRomRamRead(addr) ==
    /\ ~panicked
    /\ nops < MaxNRomRamOps
    /\ \E r \in {ReadMemory(ram, ppu, cartridge, addr)} :
        /\ ppu' = r.ppu
        /\ calls' = r.calls
        /\ panicked' = (r.result = PANIC)
        /\ bus' = [op |-> "read", addr |-> addr, value |-> 0, result |-> r.result]
    /\ drv' = [prev |-> bus]
    /\ nops' = nops + 1
    /\ UNCHANGED <<ram, cartridge, registers, opcode8, opcode16>>

NextNRomRam ==
    \/ \E addr \in NRomRamAddrs, value \in NRomRamValues : NRomRamWrite(addr, value)
    \/ \E addr \in NRomRamAddrs : NRomRamRead(addr)

SpecNRomRam == InitNRomRam /\ [][NextNRomRam]_vars

\* C35: for every nonzero RAM size n the constructor accepts, a value
\* written at a in $6000-$7FFF is read back at every a' in $6000-$7FFF with
\* (a' - a) a multiple of n and is not visible where the offsets differ
\* modulo n.  (The write is the first access to a zeroed RAM and the value
\* is not zero.)
C35_NRomRamPeriod ==
    (/\ nops = 2 /\ drv.prev.op = "write" /\ bus.op = "read") =>
        /\ ~panicked
        /\ bus.result = IF (bus.addr - drv.prev.addr) % cartridge.ram_len = 0
                        THEN drv.prev.value
                        ELSE 0

(***************************************************************************)
(* SpecCall: Cpu::tick runs a JSR at the address `site`, the subroutine    *)
(* body at CallTarget, and whatever follows, for up to MaxCallTicks        *)
(* instructions.  drv keeps the site and the S of the JSR, the name of the *)
(* last instruction, the S before it, and whether the two bytes the JSR    *)
(* pushed still hold what it pushed.                                       *)
(***************************************************************************)

MaxCallTicks == 4

CallTarget == 4 * 256
\* $0200, $02FD (the return address crosses a page) and the end of the RAM.
CallSites == {512, 765, 2045}
CallStackPointers == {0, 1, 253, 255}
\* RTS alone; after NOP; after PHA PLA; after PLA PHA; after PLA PHP; after PHA.
CallBodies == {<<96>>, <<234, 96>>, <<72, 104, 96>>, <<104, 72, 96>>,
               <<104, 8, 96>>, <<72, 96>>}

RECURSIVE PokeAll(_, _, _)
\* The RAM with the bytes at the bus addresses a, a + 1, ...
PokeAll(mem, a, bytes) ==
    IF bytes = << >> THEN mem
    ELSE PokeAll(Poke(mem, a, Head(bytes)), a + 1, Tail(bytes))

InitCall ==
    /\ opcode8 = 0 /\ opcode16 = 0
    /\ \E site \in CallSites, s \in CallStackPointers, body \in CallBodies :
        /\ registers = [RegistersNew EXCEPT !.pc = site, !.s = s, !.a = 90]
        /\ ram = PokeAll(PokeAll(Zeroes, CallTarget, body), site,
                         <<32, CallTarget % 256, CallTarget \div 256>>)
        /\ drv = [site |-> site, s |-> s, last |-> "none", before_s |-> s,
                  intact |-> TRUE]
    /\ cartridge = NRomNew(16 * 1024, 8 * 1024, 2048, "HorizontalMirroring")
    /\ ppu = PpuNew
    /\ bus = NoAccess
    /\ calls = << >>
    /\ panicked = FALSE
    /\ nops = 0

\* The two stack bytes of the return address are in t what they are now.
ReturnAddressKept(mem) ==
    \A slot \in {drv.s, (drv.s + 255) % 256} :
        ArrGet(mem, RAM_SIZE, STACK_START + slot)
            = ArrGet(ram, RAM_SIZE, STACK_START + slot)

\* cpu.tick(&mut hardware, &mut instr_log)
CallTick ==
    /\ ~panicked
    /\ nops < MaxCallTicks
    /\ TickModelled(registers, ram, ppu, cartridge)
    /\ \E t \in {CpuTick(registers, opcode8, opcode16, ram, ppu, cartridge)} :
        /\ registers' = t.registers
        /\ opcode8' = t.opcode8
        /\ opcode16' = t.opcode16
        /\ ram' = t.ram
        /\ ppu' = t.ppu
        /\ cartridge' = t.cart
        /\ calls' = t.calls
        /\ panicked' = t.panic
        /\ drv' = [drv EXCEPT !.last = Instruction(t.opcode)[1],
                              !.before_s = registers.s,
                              !.intact = IF nops = 0 THEN TRUE
                                         ELSE @ /\ ReturnAddressKept(t.ram)]
    /\ nops' = nops + 1
    /\ UNCHANGED bus

NextCall == CallTick

SpecCall == InitCall /\ [][NextCall]_vars

\* C36: a JSR fetched at P with stack pointer s pushes the high and then
\* the low byte of P + 2 and jumps to its operand; if the two pushed bytes
\* are not overwritten, a later RTS executed with S = (s - 2) mod 256 sets
\* PC to P + 3 and restores S to s.
C36_JsrRtsRoundTrip ==
    /\ (nops = 1 /\ drv.last = "JSR") =>
        /\ ArrGet(ram, RAM_SIZE, STACK_START + drv.s) = (drv.site + 2) \div 256
        /\ ArrGet(ram, RAM_SIZE, STACK_START + ((drv.s + 255) % 256))
            = (drv.site + 2) % 256
        /\ registers.pc = CallTarget
        /\ registers.s = (drv.s + 254) % 256
    /\ (/\ drv.last = "RTS" /\ drv.intact
        /\ drv.before_s = (drv.s + 254) % 256) =>
        /\ registers.pc = (drv.site + 3) % 65536
        /\ registers.s = drv.s

\* JSR at $02FD with S = 0, PHA and PLA in the subroutine, then the RTS:
\* back at $0300 with S = 0.
C36_Witness ==
    /\ nops = 4 /\ drv.last = "RTS" /\ drv.intact /\ ~panicked
    /\ drv.site = 765 /\ drv.s = 0 /\ drv.before_s = 254
    /\ ArrGet(ram, RAM_SIZE, STACK_START) = 2
    /\ ArrGet(ram, RAM_SIZE, STACK_START + 255) = 255
    /\ registers.pc = 768 /\ registers.s = 0

(***************************************************************************)
(* SpecPpuAddr: from Ppu::new the CPU makes up to MaxAddrOps accesses to   *)
(* $2002, $2005, $2006 and $2007.                                          *)
(***************************************************************************)

MaxAddrOps == 5

AddrWriteRegs == {8197, 8198, 8199}
AddrReadRegs == {8194, 8199}
AddrValues == {165, 90}

InitPpuAddr ==
    /\ CpuNew
    /\ ppu = PpuNew
    /\ cartridge = NRomNew(16 * 1024, 8 * 1024, 2048, "HorizontalMirroring")
    /\ bus = NoAccess
    /\ calls = << >>
    /\ drv = [v |-> 0]
    /\ panicked = FALSE
    /\ nops = 0

\* cpu.write_memory(hw, address, value) with address $2005, $2006 or $2007
AddrRegWrite(address, value) ==
    /\ ~panicked
    /\ nops < MaxAddrOps
    /\ nops' = nops + 1
    /\ \E w \in {WriteMemory(ram, ppu, cartridge, address, value)} :
        /\ ram' = w.ram
        /\ ppu' = w.ppu
        /\ cartridge' = w.cart
        /\ calls' = w.calls
        /\ panicked' = w.panic
    /\ bus' = [op |-> "write", addr |-> address, value |-> value, result |-> 0]
    /\ drv' = [v |-> ppu.current_vram_address]
    /\ UNCHANGED <<registers, opcode8, opcode16>>

\* cpu.read_memory(hw, address) with address $2002 or $2007
AddrRegRead(address) ==
    /\ ~panicked
    /\ nops < MaxAddrOps
    /\ nops' = nops + 1
    /\ \E r \in {ReadMemory(ram, ppu, cartridge, address)} :
        /\ ppu' = r.ppu
        /\ calls' = r.calls
        /\ panicked' = (r.result = PANIC)
        /\ bus' = [op |-> "read", addr |-> address, value |-> 0,
                   result |-> r.result]
    /\ drv' = [v |-> ppu.current_vram_address]
    /\ UNCHANGED <<ram, cartridge, registers, opcode8, opcode16>>

NextPpuAddr ==
    \/ \E address \in AddrWriteRegs, value \in AddrValues :
            AddrRegWrite(address, value)
    \/ \E address \in AddrReadRegs : AddrRegRead(address)

SpecPpuAddr == InitPpuAddr /\ [][NextPpuAddr]_vars

\* C37: for every sequence of CPU accesses to the registers, the v that a
\* $2007 read or write uses is at most $3FFF, so the range assertions of
\* read_ppu and write_ppu never fail and the palette index stays inside
\* the palette array.
C37_VramAddressInRange ==
    /\ ~panicked
    /\ bus.addr = 8199 => drv.v <= 16383

-----------------------------------------------------------------------------
(* The background fetches of the visible scanlines, checked on the frames  *)
(* of SpecFrame.                                                           *)

\* C38: on every scanline 0-239 at every dot 1-256 the fetch of the dot
\* stays inside its table: a nametable byte comes from $2000-$23BF, an
\* attribute byte from the attribute table $23C0-$23FF, and both tile
\* bitmap bytes from the CHR range $0000-$1FFF.
C38_FetchesInsideTables ==
    (ppu.current_scanline <= 239 /\ ppu.current_cycle \in 1 .. 256) =>
        /\ FetchAddress(ppu).table = "nametable" =>
                FetchAddress(ppu).addr \in 8192 .. 9151
        /\ FetchAddress(ppu).table = "attribute" =>
                FetchAddress(ppu).addr \in 9152 .. 9215
        /\ FetchAddress(ppu).table \in {"bitmap_low", "bitmap_high"} =>
                FetchAddress(ppu).addr \in 0 .. 8191

-----------------------------------------------------------------------------
(* SpecMmc1Regs: the registers of the MMC1 and the ROM indexes they give.  *)
(* The CPU makes up to MaxMmc1RegOps writes to the load register of a      *)
(* freshly built cartridge, enough to commit two registers.                *)

MaxMmc1RegOps == 10

Mmc1RegAddrs == {32768, 40960, 49152, 57344}
Mmc1RegValues == {0, 1, 128}

\* The bounds of the two 16 KiB windows of PRG-ROM and of the two 4 KiB
\* windows of CHR-ROM: inside a window the index grows with the address.
Mmc1PrgWindows == {32768, 49151, 49152, 65535}
Mmc1ChrWindows == {0, 4095, 4096, 8191}

InitMmc1Regs ==
    /\ CpuNew
    /\ ppu = PpuNew
    /\ cartridge = Mmc1New(256 * 1024, 128 * 1024, 8 * 1024)
    /\ bus = NoAccess
    /\ calls = << >>
    /\ drv = [stage |-> "mmc1regs"]
    /\ panicked = FALSE
    /\ nops = 0

\* cpu.write_memory(hw, addr, value) with addr in $8000-$FFFF
Mmc1RegWrite(addr, value) ==
    /\ ~panicked
    /\ nops < MaxMmc1RegOps
    /\ nops' = nops + 1
    /\ \E w \in {WriteMemory(ram, ppu, cartridge, addr, value)} :
        /\ ram' = w.ram
        /\ ppu' = w.ppu
        /\ cartridge' = w.cart
        /\ calls' = w.calls
        /\ panicked' = w.panic
    /\ UNCHANGED <<registers, opcode8, opcode16, bus, drv>>

NextMmc1Regs ==
    \E addr \in Mmc1RegAddrs, value \in Mmc1RegValues : Mmc1RegWrite(addr, value)

SpecMmc1Regs == InitMmc1Regs /\ [][NextMmc1Regs]_vars

\* The shifter values that n bit-7-clear writes can leave from 0b00100000.
RECURSIVE ShifterAfter(_)
ShifterAfter(n) ==
    IF n = 0 THEN {32}
    ELSE ShifterAfter(n - 1)
         \cup {s \div 2 + 128 * b : s \in ShifterAfter(n - 1), b \in {0, 1}}

\* C40: in every state reached from construction by CPU writes the four
\* registers are below 32 and the shifter is a value that at most four
\* shifts leave from 0b00100000, its marker bit still in it; every index
\* read_cpu computes for $8000-$FFFF is inside the 256 KiB of PRG-ROM and
\* every index read_ppu computes for $0000-$1FFF inside the 128 KiB of
\* CHR-ROM.
C40_Mmc1IndexesInRange ==
    /\ ~panicked
    /\ cartridge.control < 32 /\ cartridge.chr_bank0 < 32
    /\ cartridge.chr_bank1 < 32 /\ cartridge.prg_bank < 32
    /\ cartridge.shifter \in ShifterAfter(4)
    /\ \A addr \in Mmc1PrgWindows :
            Mmc1PrgIndex(cartridge, addr) \in 0 .. cartridge.prg_len - 1
    /\ \A addr \in Mmc1ChrWindows :
            Mmc1ChrIndex(cartridge, addr) \in 0 .. cartridge.chr_len - 1

\* Ten writes have put the CHR banks in 4 KiB mode and bank 31 in the
\* first window: its last byte is the last byte of CHR-ROM.
C40_Witness ==
    /\ nops = 10
    /\ And(cartridge.control, 16) = 16
    /\ cartridge.chr_bank0 = 31
    /\ Mmc1ChrIndex(cartridge, 4095) = 128 * 1024 - 1

-----------------------------------------------------------------------------
(* SpecPalette: the CPU writing the palette through $2007 while the PPU    *)
(* draws.  The PPU stands at a dot that draws a tile row, v in the         *)
(* palette, the tile and attribute bytes as some cartridge gave them; up   *)
(* to MaxPaletteOps writes and ticks follow in any order.  The driver      *)
(* keeps the set_pixel calls of the last tick.                             *)

MaxPaletteOps == 4

PaletteAddrs == {16128, 16141}
PaletteValues == {255, 64, 21}
PaletteDots == {<<0, 9>>, <<1, 1>>, <<18, 137>>, <<239, 257>>}
PaletteBitmapsLow == {0, 255, 170}
PaletteBitmapsHigh == {0, 255, 204}
PaletteAttributes == {0, 255, 27}

InitPalette ==
    /\ CpuNew
    /\ \E v \in PaletteAddrs, dot \in PaletteDots, low \in PaletteBitmapsLow,
          high \in PaletteBitmapsHigh, attr \in PaletteAttributes :
            ppu = [PpuNew EXCEPT !.current_vram_address = v,
                                 !.temp_vram_address = v,
                                 !.status_artifact = v % 256,
                                 !.current_scanline = dot[1],
                                 !.current_cycle = dot[2],
                                 !.current_tilebitmap_low = low,
                                 !.current_tilebitmap_high = high,
                                 !.current_attributetable_byte = attr]
    /\ cartridge = NRomNew(16 * 1024, 8 * 1024, 2048, "HorizontalMirroring")
    /\ bus = NoAccess
    /\ calls = << >>
    /\ drv = [pixels |-> << >>]
    /\ panicked = FALSE
    /\ nops = 0

\* cpu.write_memory(hw, 0x2007, value)
PaletteWrite(value) ==
    /\ ~panicked
    /\ nops < MaxPaletteOps
    /\ nops' = nops + 1
    /\ \E w \in {WriteMemory(ram, ppu, cartridge, 8199, value)} :
        /\ ram' = w.ram
        /\ ppu' = w.ppu
        /\ cartridge' = w.cart
        /\ calls' = w.calls
        /\ panicked' = w.panic
    /\ bus' = [op |-> "write", addr |-> 8199, value |-> value, result |-> 0]
    /\ drv' = [pixels |-> << >>]
    /\ UNCHANGED <<registers, opcode8, opcode16>>

\* ppu.tick(&mut cartridge, &mut output)
PaletteTick ==
    /\ ~panicked
    /\ nops < MaxPaletteOps
    /\ nops' = nops + 1
    /\ \E t \in {PpuTick(ppu, cartridge)} :
        /\ ppu' = t.ppu
        /\ panicked' = t.panic
        /\ drv' = [pixels |-> t.pixels]
    /\ calls' = << >>
    /\ UNCHANGED <<ram, registers, opcode8, opcode16, cartridge, bus>>

NextPalette == (\E value \in PaletteValues : PaletteWrite(value)) \/ PaletteTick

SpecPalette == InitPalette /\ [][NextPalette]_vars

\* C39: every palette entry is at most $3F, so every colour draw_8x1
\* selects indexes inside the 64-entry RGB table (colour * 3 + 2 <= 191)
\* and no draw fails, whatever the CPU wrote through $2007 and whatever
\* tile and attribute bytes are drawn.
C39_PaletteInsideRgbTable ==
    /\ ~panicked
    /\ \A i \in DOMAIN ppu.palette : ppu.palette[i] <= 63
    /\ \A k \in DOMAIN drv.pixels : drv.pixels[k].color * 3 + 2 <= 191

\* A $FF written through $2007 was stored as $3F and a tick drew the whole
\* tile row with it, the last colour of the RGB table.
C39_Witness ==
    /\ bus.value = 255
    /\ Len(drv.pixels) = 8
    /\ \A k \in 1 .. 8 : drv.pixels[k].color = 63

====
